---- MODULE Spec2Model ----
(***************************************************************************)
(* Model of the `publish-packages` command of expotools: the changelog     *)
(* reader, the git history queries, the release type suggestion and the    *)
(* phase pipeline with its backup file (src/unnamed/part_000).             *)
(*                                                                         *)
(* JavaScript values are represented as follows.  Strings are TLA+         *)
(* strings; `undefined` and `null` are the strings "undefined" and "null"  *)
(* (what String(x) gives for them), which never occur as package data.     *)
(* An optional object (a file that may not exist, a nullable result) is a  *)
(* sequence of length 0 or 1.  A PackageState is a function whose DOMAIN   *)
(* is the set of keys the object owns.                                     *)
(***************************************************************************)
EXTENDS Integers, Sequences, FiniteSets, TLC

Undefined == "undefined"
Null == "null"
None == <<>>
Some(x) == <<x>>
Falsy(s) == s \in {Undefined, Null, ""}

(***************************************************************************)
(* Bounds of the model.                                                    *)
(***************************************************************************)
\* Largest numeric component of a version string the semver parser knows.
MaxNum == 3
\* Number of invocations of the command in one behaviour.
MaxRuns == 2
\* Number of one-millisecond clock steps (beside the expiration-time steps).
MaxMillis == 1
\* Number of expiration-time clock steps.
MaxEpochs == 1
\* Largest number of tokens of a changelog file written block by block.
MaxTokens == 7

(***************************************************************************)
(* semver: parsing, formatting and increment of version strings.           *)
(***************************************************************************)
Digits == <<"0", "1", "2", "3", "4", "5", "6", "7", "8", "9">>
NumToString(n) == IF n \in 0..9 THEN Digits[n + 1] ELSE "1" \o Digits[(n % 10) + 1]

PrereleaseIds == {"rc", "beta"}

\* A parsed version: preId = "" and preNum = -1 when there is no prerelease
\* part; preId = "" and preNum >= 0 for a numeric-only prerelease ("1.0.1-0").
SemVers ==
  { v \in [major : 0..MaxNum, minor : 0..MaxNum, patch : 0..MaxNum,
           preId : PrereleaseIds \cup {""}, preNum : -1..1] :
      v.preId # "" => v.preNum >= 0 }

semverFormat(v) ==
  LET core == NumToString(v.major) \o "." \o NumToString(v.minor) \o "."
                \o NumToString(v.patch)
  IN  IF v.preId = "" /\ v.preNum = -1 THEN core
      ELSE IF v.preId = "" THEN core \o "-" \o NumToString(v.preNum)
      ELSE core \o "-" \o v.preId \o "." \o NumToString(v.preNum)

SemVerStrings == { semverFormat(v) : v \in SemVers }

SemVerTable == [ s \in SemVerStrings |-> CHOOSE v \in SemVers : semverFormat(v) = s ]

\* semver.valid(version) # null
semverValid(s) == s \in SemVerStrings

semverParse(s) == SemVerTable[s]

HasPrerelease(v) == v.preId # "" \/ v.preNum # -1

\* semver.prerelease(version): the prerelease components, or null.
semverPrerelease(s) ==
  IF ~semverValid(s) THEN None
  ELSE IF HasPrerelease(semverParse(s)) THEN Some(semverParse(s)) ELSE None

\* SemVer.prototype.inc('pre', identifier)
IncPre(v, identifier) ==
  LET bumped == IF ~HasPrerelease(v) THEN [v EXCEPT !.preNum = 0]
                ELSE [v EXCEPT !.preNum = v.preNum + 1]
  IN  IF Falsy(identifier) THEN bumped
      ELSE IF bumped.preId = identifier THEN bumped
      ELSE [bumped EXCEPT !.preId = identifier, !.preNum = 0]

NoPre(v) == [v EXCEPT !.preId = "", !.preNum = -1]

\* SemVer.prototype.inc(release, identifier); None when it throws.
IncVersion(v, release, identifier) ==
  CASE release = "major" ->
         Some(NoPre(IF v.minor # 0 \/ v.patch # 0 \/ ~HasPrerelease(v)
                    THEN [v EXCEPT !.major = v.major + 1, !.minor = 0, !.patch = 0]
                    ELSE v))
    [] release = "minor" ->
         Some(NoPre(IF v.patch # 0 \/ ~HasPrerelease(v)
                    THEN [v EXCEPT !.minor = v.minor + 1, !.patch = 0]
                    ELSE v))
    [] release = "patch" ->
         Some(NoPre(IF ~HasPrerelease(v) THEN [v EXCEPT !.patch = v.patch + 1] ELSE v))
    [] release = "premajor" ->
         Some(IncPre(NoPre([v EXCEPT !.major = v.major + 1, !.minor = 0, !.patch = 0]),
                     identifier))
    [] release = "preminor" ->
         Some(IncPre(NoPre([v EXCEPT !.minor = v.minor + 1, !.patch = 0]), identifier))
    [] release = "prepatch" ->
         Some(IncPre(NoPre([v EXCEPT !.patch = v.patch + 1]), identifier))
    [] release = "prerelease" ->
         Some(IncPre(IF ~HasPrerelease(v) THEN [v EXCEPT !.patch = v.patch + 1] ELSE v,
                     identifier))
    [] OTHER -> None

\* semver.inc(version, release, identifier): the new version string, or null
\* when the version does not parse or the release type is not one semver knows.
semverInc(version, release, identifier) ==
  IF ~semverValid(version) THEN Null
  ELSE LET r == IncVersion(semverParse(version), release, identifier)
       IN  IF r = None THEN Null ELSE semverFormat(r[1])

(***************************************************************************)
(* Changelogs.  A token of the Markdown lexer is a record [type, depth,    *)
(* text]; depth is 0 and text is "" where the lexer's token has none.      *)
(***************************************************************************)
HEADING == "heading"
LIST_ITEM_START == "list_item_start"
LIST_ITEM_END == "list_item_end"
TEXT == "text"

Heading(depth, text) == [type |-> HEADING, depth |-> depth, text |-> text]
ListItem(text) ==
  << [type |-> LIST_ITEM_START, depth |-> 0, text |-> ""],
     [type |-> TEXT, depth |-> 0, text |-> text],
     [type |-> LIST_ITEM_END, depth |-> 0, text |-> ""] >>

\* The emoji that open the section names in the source are left out.
BREAKING_CHANGES == "Breaking changes"
NEW_FEATURES == "New features"
BUG_FIXES == "Bug fixes"

VERSION_HEADING_DEPTH == 2
CHANGE_TYPE_HEADING_DEPTH == 3

\* The default value of getChangesAsync's toVersion parameter.
DefaultToVersion == "master"

EmptyObject == [k \in {} |-> Null]

\* obj[key] = value on a JavaScript object.
SetKey(obj, key, value) ==
  [k \in DOMAIN obj \cup {key} |-> IF k = key THEN value ELSE obj[k]]

\* ListItemLoop, but a token is counted whether or not it has a text.
RECURSIVE ListItemLoopCountingAll(_, _, _, _, _)
ListItemLoopCountingAll(tokens, i, currentVersion, currentSection, changes) ==
  IF i > Len(tokens) \/ tokens[i].type = LIST_ITEM_END THEN <<i, changes>>
  ELSE ListItemLoopCountingAll(tokens, i + 1, currentVersion, currentSection,
         [totalCount |-> changes.totalCount + 1,
          versions |-> IF ~Falsy(tokens[i].text)
                       THEN [changes.versions EXCEPT
                               ![currentVersion][currentSection] = Append(@, tokens[i].text)]
                       ELSE changes.versions])

\* The inner loop of getChangesAsync: from token i up to the next
\* LIST_ITEM_END, every token with a non-empty text is counted and stored.
\* Returns <<index of the LIST_ITEM_END, changes>>.
RECURSIVE ListItemLoop(_, _, _, _, _)
ListItemLoop(tokens, i, currentVersion, currentSection, changes) ==
  IF i > Len(tokens) \/ tokens[i].type = LIST_ITEM_END THEN <<i, changes>>
  ELSE IF ~Falsy(tokens[i].text)
       THEN ListItemLoop(tokens, i + 1, currentVersion, currentSection,
              [totalCount |-> changes.totalCount + 1,
               versions |-> [changes.versions EXCEPT
                  ![currentVersion][currentSection] = Append(@, tokens[i].text)]])
       ELSE ListItemLoop(tokens, i + 1, currentVersion, currentSection, changes)

\* The outer loop of getChangesAsync, at token i.
RECURSIVE TokenLoop(_, _, _, _, _, _, _)
TokenLoop(tokens, i, currentVersion, currentSection, changes, fromVersion, toVersion) ==
  IF i > Len(tokens) THEN changes
  ELSE
    LET token == tokens[i] IN
    IF token.type = HEADING THEN
      IF token.depth = VERSION_HEADING_DEPTH THEN
        IF token.text # toVersion /\ (Falsy(fromVersion) \/ token.text = fromVersion)
        THEN changes
        ELSE TokenLoop(tokens, i + 1, token.text, Null,
               [changes EXCEPT !.versions =
                  IF token.text \in DOMAIN changes.versions THEN @
                  ELSE SetKey(@, token.text, EmptyObject)],
               fromVersion, toVersion)
      ELSE IF ~Falsy(currentVersion) /\ token.depth = CHANGE_TYPE_HEADING_DEPTH THEN
        TokenLoop(tokens, i + 1, currentVersion, token.text,
          [changes EXCEPT !.versions[currentVersion] =
             IF token.text \in DOMAIN @ THEN @ ELSE SetKey(@, token.text, <<>>)],
          fromVersion, toVersion)
      ELSE TokenLoop(tokens, i + 1, currentVersion, currentSection, changes,
             fromVersion, toVersion)
    ELSE IF ~Falsy(currentVersion) /\ ~Falsy(currentSection)
            /\ token.type = LIST_ITEM_START THEN
      LET r == ListItemLoop(tokens, i + 1, currentVersion, currentSection, changes)
      IN  TokenLoop(tokens, r[1] + 1, currentVersion, currentSection, r[2],
            fromVersion, toVersion)
    ELSE TokenLoop(tokens, i + 1, currentVersion, currentSection, changes,
           fromVersion, toVersion)

\* getChangesAsync, but fromVersion is not handed to the loop.
getChangesAsyncIgnoringFrom(tokens, fromVersion, toVersion) ==
  TokenLoop(tokens, 1, Null, Null, [totalCount |-> 0, versions |-> EmptyObject],
    Undefined, IF toVersion = Undefined THEN DefaultToVersion ELSE toVersion)

\* Changelog.getChangesAsync(fromVersion, toVersion) over the changelog's tokens.
getChangesAsync(tokens, fromVersion, toVersion) ==
  TokenLoop(tokens, 1, Null, Null, [totalCount |-> 0, versions |-> EmptyObject],
    fromVersion, IF toVersion = Undefined THEN DefaultToVersion ELSE toVersion)

(***************************************************************************)
(* Git.  The repository's history is a fixed line of commits, oldest       *)
(* first; each commit lists the files it changes, per package directory.   *)
(* A relative path is the sequence of its segments.                        *)
(***************************************************************************)
File(pkg, relativePath, status) ==
  [pkg |-> pkg, relativePath |-> relativePath, status |-> status]

GitHistory ==
  << [hash |-> "c1", parent |-> "c0",
      files |-> << File("a", <<"package.json">>, "M"), File("b", <<"package.json">>, "M") >>],
     [hash |-> "c2", parent |-> "c1",
      files |-> << File("a", <<"src", "index.ts">>, "M") >>],
     [hash |-> "c3", parent |-> "c2",
      files |-> << File("a", <<"ios", "Foo.m">>, "A"), File("b", <<"src", "b.ts">>, "M") >>],
     [hash |-> "c4", parent |-> "c3",
      files |-> << File("b", <<"README.md">>, "M") >>],
     [hash |-> "c5", parent |-> "c4",
      files |-> << File("b", <<"android", "B.java">>, "A") >>] >>

Hashes == { GitHistory[i].hash : i \in 1..Len(GitHistory) }

PositionOf(hash) == CHOOSE i \in 1..Len(GitHistory) : GitHistory[i].hash = hash

\* A revision as git resolves it: the missing side of `a..b` and `head` are HEAD.
Resolve(rev, headHash) ==
  IF rev \in {"", "head"} THEN PositionOf(headHash) ELSE PositionOf(rev)

Touches(commit, pkg) == \E k \in 1..Len(commit.files) : commit.files[k].pkg = pkg

GitFileStatus(letter) ==
  CASE letter = "M" -> "modified" [] letter = "C" -> "copy" [] letter = "R" -> "rename"
    [] letter = "A" -> "added" [] letter = "D" -> "deleted" [] letter = "U" -> "unmerged"
    [] OTHER -> Undefined

\* The commits at positions lo+1..hi that touch pkg, newest first.
RECURSIVE LogRange(_, _, _)
LogRange(pkg, lo, hi) ==
  IF hi <= lo THEN <<>>
  ELSE IF Touches(GitHistory[hi], pkg)
       THEN << [hash |-> GitHistory[hi].hash, parent |-> GitHistory[hi].parent] >>
              \o LogRange(pkg, lo, hi - 1)
       ELSE LogRange(pkg, lo, hi - 1)

\* Git.logAsync(cwd, {fromCommit, toCommit}) with HEAD at headHash.
logAsync(cwd, fromCommit, toCommit, headHash) ==
  LogRange(cwd,
    Resolve(IF fromCommit = Undefined THEN "" ELSE fromCommit, headHash),
    Resolve(IF toCommit = Undefined THEN "head" ELSE toCommit, headHash))

RECURSIVE FilesOf(_, _, _)
FilesOf(pkg, files, k) ==
  IF k > Len(files) THEN <<>>
  ELSE IF files[k].pkg = pkg
       THEN << [relativePath |-> files[k].relativePath,
                path |-> <<pkg>> \o files[k].relativePath,
                status |-> GitFileStatus(files[k].status)] >> \o FilesOf(pkg, files, k + 1)
       ELSE FilesOf(pkg, files, k + 1)

\* The files of pkg changed by the commits at positions lo+1..hi.
RECURSIVE DiffRange(_, _, _)
DiffRange(pkg, lo, hi) ==
  IF hi <= lo THEN <<>>
  ELSE DiffRange(pkg, lo, hi - 1) \o FilesOf(pkg, GitHistory[hi].files, 1)

\* Git.logFilesAsync(cwd, {fromCommit, toCommit}) with HEAD at headHash.
logFilesAsync(cwd, fromCommit, toCommit, headHash) ==
  DiffRange(cwd,
    Resolve(IF fromCommit = Undefined THEN "" ELSE fromCommit, headHash),
    Resolve(IF toCommit = Undefined THEN "head" ELSE toCommit, headHash))

(***************************************************************************)
(* The publish-packages command: constants and types.                      *)
(***************************************************************************)
BACKUP_EXPIRATION_TIME == 30 * 60 * 1000

NATIVE_DIRECTORIES == <<"ios", "android">>

\* The members of the ReleaseType enum.
ReleaseType == {"major", "minor", "patch", "premajor", "preminor", "prepatch"}

\* ReleaseType.PRERELEASE: the enum declares no such member, so the property
\* access evaluates to undefined.
ReleaseTypePRERELEASE == IF "prerelease" \in ReleaseType THEN "prerelease" ELSE Undefined

\* The value of the --prerelease option: [flag |-> FALSE] is false (option not
\* given), [flag |-> TRUE, value |-> ""] is true (given without a value), and
\* [flag |-> TRUE, value |-> s] is the string s.
PrereleaseOff == [flag |-> FALSE, value |-> ""]
PrereleaseOn == [flag |-> TRUE, value |-> ""]
PrereleaseId(id) == [flag |-> TRUE, value |-> id]

\* state.key, undefined when the object has no such key.
Get(state, key) == IF key \in DOMAIN state THEN state[key] ELSE Undefined

\* Truthiness of a boolean-valued key of a PackageState.
IsTrue(state, key) == key \in DOMAIN state /\ state[key] = TRUE

\* Keys of a PackageState whose value can be undefined.
NullableKeys == {"releaseType", "releaseVersion"}

\* JSON.parse(JSON.stringify(state)): keys whose value is undefined are dropped.
JsonClone(state) ==
  [k \in {j \in DOMAIN state : ~(j \in NullableKeys /\ state[j] = Undefined)} |-> state[k]]

\* { ...target, ...source }
Spread(target, source) ==
  [k \in DOMAIN target \cup DOMAIN source |->
     IF k \in DOMAIN source THEN source[k] ELSE target[k]]

\* str.split(/\s*,\s*/g) for the option strings of the model.
SplitList(str) ==
  CASE str = "" -> <<"">>
    [] str = "a" -> <<"a">>
    [] str = "b" -> <<"b">>
    [] str = "a,b" -> <<"a", "b">>

Includes(list, x) == \E k \in 1..Len(list) : list[k] = x

\* The names of the packages of the monorepo, in getListOfPackagesAsync's order.
PackageNames == <<"a", "b">>

\* The Package object of a name, read from its package.json.
PackageOf(name, packageJsons) ==
  [packageName |-> name, packageVersion |-> packageJsons[name].version,
   path |-> name, changelogPath |-> name, packageJson |-> packageJsons[name]]

RECURSIVE FilterSeq(_, _)
FilterSeq(seq, keep) ==
  IF seq = <<>> THEN <<>>
  ELSE (IF Head(seq) \in keep THEN <<Head(seq)>> ELSE <<>>) \o FilterSeq(Tail(seq), keep)

\* The packages preparePackageFabricsAsync keeps: not private, in scope, not
\* excluded, in getListOfPackagesAsync's order.
FilteredPackages(opts, packageJsons) ==
  LET exclude == SplitList(opts.exclude)
      scope == SplitList(opts.scope)
      kept == { name \in DOMAIN packageJsons :
                  /\ ~packageJsons[name].private
                  /\ Includes(scope, name)
                  /\ ~Includes(exclude, name) }
      names == FilterSeq(PackageNames, kept)
  IN  [ i \in 1..Len(names) |-> PackageOf(names[i], packageJsons) ]

\* The fabric the callback of packages.map returns once `npm view` has answered.
FabricOf(pkg, pkgView) ==
  [pkg |-> pkg, pkgView |-> pkgView, changelog |-> [filePath |-> pkg.changelogPath],
   state |-> EmptyObject]

\* preparePackageFabricsAsync(options)
preparePackageFabricsAsync(opts, packageJsons, registry) ==
  LET exclude == SplitList(opts.exclude)
      scope == SplitList(opts.scope)
      kept == { name \in DOMAIN packageJsons :
                  /\ ~packageJsons[name].private
                  /\ Includes(scope, name)
                  /\ ~Includes(exclude, name) }
      names == FilterSeq(PackageNames, kept)
  IN  [ i \in 1..Len(names) |->
          [pkg |-> PackageOf(names[i], packageJsons),
           pkgView |-> registry[names[i]],
           changelog |-> [filePath |-> names[i]],
           state |-> EmptyObject] ]

\* checkPackagesIntegrity(fabrics)
checkPackagesIntegrity(fabrics) ==
  [ i \in 1..Len(fabrics) |->
      [fabrics[i] EXCEPT !.state =
         SetKey(@, "integral",
           fabrics[i].pkgView = None
             \/ fabrics[i].pkg.packageJson.gitHead = fabrics[i].pkgView[1].gitHead)] ]

fileLogsContainNativeChanges(fileLogs) ==
  \E k \in 1..Len(fileLogs) : \E d \in 1..Len(NATIVE_DIRECTORIES) :
     /\ Len(fileLogs[k].relativePath) >= 2
     /\ fileLogs[k].relativePath[1] = NATIVE_DIRECTORIES[d]

\* changelogChanges?.versions.master?.[BREAKING_CHANGES]?.length
BreakingChangesLength(changelogChanges) ==
  IF "master" \notin DOMAIN changelogChanges.versions THEN 0
  ELSE IF BREAKING_CHANGES \notin DOMAIN changelogChanges.versions["master"] THEN 0
  ELSE Len(changelogChanges.versions["master"][BREAKING_CHANGES])

\* getSuggestedReleaseType, but native changes are looked at before breaking changes.
getSuggestedReleaseTypeNativeFirst(currentVersion, fileLogs, changelogChanges) ==
  IF semverPrerelease(currentVersion) # None THEN ReleaseTypePRERELEASE
  ELSE IF fileLogsContainNativeChanges(fileLogs) THEN "minor"
  ELSE IF BreakingChangesLength(changelogChanges) > 0 THEN "major"
  ELSE "patch"

getSuggestedReleaseType(currentVersion, fileLogs, changelogChanges) ==
  IF semverPrerelease(currentVersion) # None THEN ReleaseTypePRERELEASE
  ELSE IF BreakingChangesLength(changelogChanges) > 0 THEN "major"
  ELSE IF fileLogsContainNativeChanges(fileLogs) THEN "minor"
  ELSE "patch"

\* Pop, but nothing is removed.
PopNothing(logs) == logs

\* Pop, but the first element is removed, as logs.shift() does.
Shift(logs) == IF logs = <<>> THEN <<>> ELSE Tail(logs)

\* logs.pop()
Pop(logs) == IF logs = <<>> THEN <<>> ELSE SubSeq(logs, 1, Len(logs) - 1)

\* The prerelease identifier findUnpublishedPackagesAsync derives from the option.
PrereleaseIdentifier(opts) ==
  IF opts.prerelease = PrereleaseOn THEN "rc"
  ELSE IF opts.prerelease.flag THEN opts.prerelease.value ELSE ""

\* state.hasUnpublishedChanges = logs.length > 0 || changelogChanges.totalCount > 0
hasUnpublishedChanges(logs, changelogChanges) ==
  Len(logs) > 0 \/ changelogChanges.totalCount > 0

\* The state of one fabric after the body of findUnpublishedPackagesAsync's loop
\* up to the check of releaseType and releaseVersion.
SuggestedState(fabric, tokens, headHash) ==
  LET pkg == fabric.pkg
      changelogChanges == getChangesAsync(tokens, Undefined, Undefined)
      logs == logAsync(pkg.path, pkg.packageJson.gitHead, "head", headHash)
      fileLogs == logFilesAsync(pkg.path,
                    IF logs = <<>> THEN Undefined ELSE logs[Len(logs)].hash,
                    IF logs = <<>> THEN Undefined ELSE logs[1].hash, headHash)
      kept == IF ~Falsy(pkg.packageJson.gitHead) THEN Pop(logs) ELSE logs
      releaseType == getSuggestedReleaseType(pkg.packageVersion, fileLogs, changelogChanges)
  IN  Spread(fabric.state,
        [logs |-> kept,
         fileLogs |-> fileLogs,
         changelogChanges |-> changelogChanges,
         hasUnpublishedChanges |-> hasUnpublishedChanges(kept, changelogChanges),
         releaseType |-> releaseType,
         releaseVersion |-> semverInc(pkg.packageVersion, releaseType, Undefined)])

HasSuggestion(state) == ~Falsy(state.releaseType) /\ ~Falsy(state.releaseVersion)

\* The whole body of findUnpublishedPackagesAsync's loop for one fabric.
DetectedState(fabric, tokens, opts, headHash) ==
  LET s == SuggestedState(fabric, tokens, headHash)
      prerelease == PrereleaseIdentifier(opts)
  IN  IF ~HasSuggestion(s) THEN s
      ELSE IF ~Falsy(prerelease)
           THEN [s EXCEPT !.releaseType = ReleaseTypePRERELEASE,
                          !.releaseVersion =
                             semverInc(s.releaseVersion, ReleaseTypePRERELEASE, prerelease)]
           ELSE s

\* findUnpublishedPackagesAsync(fabrics, options)
findUnpublishedPackagesAsync(fabrics, opts, changelogs, headHash) ==
  [ i \in 1..Len(fabrics) |->
      [fabrics[i] EXCEPT !.state =
         DetectedState(fabrics[i], changelogs[fabrics[i].changelog.filePath], opts, headHash)] ]

\* findUnpublishedPackagesAsync(fabrics) as --list-unpublished calls it, without
\* options: reading options.prerelease throws for the first fabric that passes
\* the check of releaseType and releaseVersion.
ListUnpublishedThrows(fabrics, changelogs, headHash) ==
  \E i \in 1..Len(fabrics) :
     HasSuggestion(SuggestedState(fabrics[i], changelogs[fabrics[i].changelog.filePath],
                                  headHash))

\* choosePackagesToPublishAsync, but the operator is asked about every package.
choosePackagesToPublishAsyncOfAll(fabrics, selected) ==
  [ i \in 1..Len(fabrics) |->
      [fabrics[i] EXCEPT !.state =
         SetKey(@, "isSelectedToPublish", selected[fabrics[i].pkg.packageName])] ]

\* choosePackagesToPublishAsync(fabrics); selected[name] is the operator's answer
\* to the prompt for package name.
choosePackagesToPublishAsync(fabrics, selected) ==
  [ i \in 1..Len(fabrics) |->
      IF IsTrue(fabrics[i].state, "hasUnpublishedChanges")
      THEN [fabrics[i] EXCEPT !.state =
              SetKey(@, "isSelectedToPublish", selected[fabrics[i].pkg.packageName])]
      ELSE fabrics[i] ]

\* const gitHead = state.logs?.[0]?.hash ?? pkg.packageJson.gitHead
NewGitHead(fabric) ==
  IF "logs" \in DOMAIN fabric.state /\ fabric.state["logs"] # <<>>
  THEN fabric.state["logs"][1].hash
  ELSE fabric.pkg.packageJson.gitHead

\* Whether updateVersionsAsync rewrites the package.json of a fabric.
WritesManifest(fabric) ==
  ~Falsy(NewGitHead(fabric)) /\ ~Falsy(Get(fabric.state, "releaseVersion"))

\* updateVersionsAsync(fabrics) up to and including the first n fabrics: the
\* contents of the package.json files afterwards.
RECURSIVE updateVersionsAsync(_, _, _)
updateVersionsAsync(fabrics, n, packageJsons) ==
  IF n = 0 THEN packageJsons
  ELSE LET before == updateVersionsAsync(fabrics, n - 1, packageJsons)
           fabric == fabrics[n]
       IN  IF WritesManifest(fabric)
           THEN [before EXCEPT ![fabric.pkg.packageName] =
                   [fabric.pkg.packageJson EXCEPT
                      !.version = fabric.state["releaseVersion"],
                      !.gitHead = NewGitHead(fabric)]]
           ELSE before

\* ToPublish, but filtered by hasUnpublishedChanges.
ToPublishUnpublished(fabrics) ==
  { i \in 1..Len(fabrics) : IsTrue(fabrics[i].state, "hasUnpublishedChanges") }

ToPublish(fabrics) == { i \in 1..Len(fabrics) : IsTrue(fabrics[i].state, "isSelectedToPublish") }

\* The entries updateBundledNativeModulesFileAsync assigns, for the first n fabrics.
RECURSIVE AssignRanges(_, _, _)
AssignRanges(fabrics, n, bundledNativeModules) ==
  IF n = 0 THEN bundledNativeModules
  ELSE LET before == AssignRanges(fabrics, n - 1, bundledNativeModules)
       IN  IF n \in ToPublish(fabrics)
           THEN SetKey(before, fabrics[n].pkg.packageName,
                       "~" \o Get(fabrics[n].state, "releaseVersion"))
           ELSE before

\* updateBundledNativeModulesFileAsync(fabrics): the contents of
\* bundledNativeModules.json afterwards.
updateBundledNativeModulesFileAsync(fabrics, bundledNativeModules) ==
  IF ToPublish(fabrics) = {} THEN bundledNativeModules
  ELSE AssignRanges(fabrics, Len(fabrics), bundledNativeModules)

(***************************************************************************)
(* The backup file.                                                        *)
(***************************************************************************)
pickBackupableOptions(opts) ==
  [scope |-> opts.scope, exclude |-> opts.exclude, dry |-> opts.dry]

\* jsondiffpatch.diff(left, right): the keys whose values differ; the library
\* returns undefined when there is none.
Delta(left, right) == { k \in DOMAIN left \cup DOMAIN right :
                          k \notin DOMAIN left \/ k \notin DOMAIN right \/ left[k] # right[k] }

\* isBackupValid, but a backup expires as soon as its age reaches the limit.
isBackupValidOffByOne(bak, currentHead, opts, dateNow) ==
  IF currentHead # bak.head \/ dateNow - bak.timestamp >= BACKUP_EXPIRATION_TIME THEN FALSE
  ELSE IF Delta(pickBackupableOptions(opts), bak.options) # {} THEN FALSE
  ELSE TRUE

isBackupValid(bak, currentHead, opts, dateNow) ==
  IF currentHead # bak.head \/ dateNow - bak.timestamp > BACKUP_EXPIRATION_TIME THEN FALSE
  ELSE IF Delta(pickBackupableOptions(opts), bak.options) # {} THEN FALSE
  ELSE TRUE

\* maybeRestoreBackupAsync, but the backup that is read is not validated.
maybeRestoreBackupAsyncUnchecked(file, currentHead, opts, dateNow, restore) ==
  IF file = None THEN None
  ELSE IF opts.retry THEN file
  ELSE IF restore THEN file ELSE None

\* maybeRestoreBackupAsync(currentHead, options); restore is the operator's
\* answer to the prompt, asked only without --retry.
maybeRestoreBackupAsync(file, currentHead, opts, dateNow, restore) ==
  IF file = None THEN None
  ELSE IF ~isBackupValid(file[1], currentHead, opts, dateNow) THEN None
  ELSE IF opts.retry THEN file
  ELSE IF restore THEN file ELSE None

\* saveBackup, but recording the index of the phase to run next.
saveBackupNextPhase(headHash, index, fabrics, opts, dateNow) ==
  [timestamp |-> dateNow,
   head |-> headHash,
   phaseIndex |-> index + 1,
   options |-> [scope |-> opts.scope, exclude |-> opts.exclude, dry |-> opts.dry],
   state |-> [ name \in { fabrics[i].pkg.packageName : i \in 1..Len(fabrics) } |->
                 JsonClone((CHOOSE f \in { fabrics[i] : i \in 1..Len(fabrics) } :
                              f.pkg.packageName = name).state) ]]

\* The StateBackup object saveBackup writes.
saveBackup(headHash, index, fabrics, opts, dateNow) ==
  [timestamp |-> dateNow,
   head |-> headHash,
   phaseIndex |-> index,
   options |-> pickBackupableOptions(opts),
   state |-> [ name \in { fabrics[i].pkg.packageName : i \in 1..Len(fabrics) } |->
                 JsonClone((CHOOSE f \in { fabrics[i] : i \in 1..Len(fabrics) } :
                              f.pkg.packageName = name).state) ]]

\* FirstPhaseIndex, but two phases past the one the backup was saved for.
FirstPhaseIndexSkipping(restored) == IF restored = None THEN 0 ELSE restored[1].phaseIndex + 2

\* The phase index the main loop starts at.
FirstPhaseIndex(restored) == IF restored = None THEN 0 ELSE restored[1].phaseIndex

\* RestoreStates, but only the last fabric gets its restored state.
RestoreStatesOfLast(fabrics, restored) ==
  IF restored = None THEN fabrics
  ELSE [ i \in 1..Len(fabrics) |->
           IF i = Len(fabrics) /\ fabrics[i].pkg.packageName \in DOMAIN restored[1].state
           THEN [fabrics[i] EXCEPT !.state =
                   Spread(@, restored[1].state[fabrics[i].pkg.packageName])]
           ELSE fabrics[i] ]

\* The fabrics after the restored states are merged in.
RestoreStates(fabrics, restored) ==
  IF restored = None THEN fabrics
  ELSE [ i \in 1..Len(fabrics) |->
           IF fabrics[i].pkg.packageName \in DOMAIN restored[1].state
           THEN [fabrics[i] EXCEPT !.state =
                   Spread(@, restored[1].state[fabrics[i].pkg.packageName])]
           ELSE fabrics[i] ]

\* The phases array of action().
phases ==
  << "checkPackagesIntegrity", "findUnpublishedPackagesAsync",
     "choosePackagesToPublishAsync", "updateVersionsAsync",
     "updateBundledNativeModulesFileAsync" >>

\* The phases that wait for a child process, a prompt or a file, and so can throw.
ThrowingPhases ==
  { "findUnpublishedPackagesAsync", "choosePackagesToPublishAsync",
    "updateVersionsAsync", "updateBundledNativeModulesFileAsync" }

(***************************************************************************)
(* The state: the files and the repository the command works on, and the   *)
(* process of one invocation of action().                                  *)
(***************************************************************************)
VARIABLES
  now,                   \* Date.now(), in milliseconds
  head,                  \* the hash of the repository's HEAD commit
  packageJsons,          \* the package.json file of each package
  changelogs,            \* the tokens of each package's CHANGELOG.md
  registry,              \* `npm view` of each package: None if never published
  bundledNativeModules,  \* the contents of bundledNativeModules.json
  unstaged,              \* whether the working tree has unstaged changes
  backupFile,            \* the file at BACKUP_PATH: None if it does not exist
  pc,                    \* where the process is
  exitCode,              \* the exit code of the process, -1 while it runs
  options,               \* action's options
  headCommitHash,        \* action's headCommitHash
  fabrics,               \* action's fabrics
  backup,                \* action's backup, None for null
  phaseIndex,            \* action's phaseIndex
  runs                   \* the number of invocations so far

\* One Changelog object and one call of its getChangesAsync, on their own.
VARIABLES
  tokens,                \* Changelog.tokens, the token stream of the file
  fromVersion,           \* the first argument of the call, Undefined if not given
  toVersion,             \* the second argument of the call, Undefined if not given
  changes                \* what the call returned: None before any call

changelogCall == <<tokens, fromVersion, toVersion, changes>>

\* preparePackageFabricsAsync step by step: one promise per package.
VARIABLES
  packages,              \* preparePackageFabricsAsync's packages, the filtered list
  promises,              \* the promise of each call of the callback of packages.map
  settled                \* the names of the packages in the order their promises settled

fanOut == <<packages, promises, settled>>

\* What the repository checks of action() meet, where it is followed.
VARIABLES
  staged,                \* whether the index holds changes that are not committed
  branchName,            \* checkBranchNameAsync's branchName, the current branch
  confirmed              \* checkBranchNameAsync's confirmed, FALSE if not asked

checkout == <<staged, branchName, confirmed>>

\* fs.outputFileSync(BACKUP_PATH, ...) of saveBackup, where it is followed.
VARIABLES
  fd,                    \* whether the backup file is open for writing
  torn                   \* whether the backup file holds less than the whole text

save == <<fd, torn>>

\* The variables the command's steps do not touch.
aside == <<changelogCall, fanOut, checkout, save>>

world == <<now, head, packageJsons, changelogs, registry, bundledNativeModules, unstaged>>
process == <<pc, exitCode, options, headCommitHash, fabrics, backup, phaseIndex, runs>>
vars == <<now, head, packageJsons, changelogs, registry, bundledNativeModules, unstaged,
          backupFile, pc, exitCode, options, headCommitHash, fabrics, backup, phaseIndex,
          runs, aside>>

ChangelogHeader == << Heading(1, "Changelog"), Heading(2, "master") >>
ChangelogReleased ==
  << Heading(2, "1.0.0"), Heading(3, BUG_FIXES) >> \o ListItem("Fixed a crash.")

\* A changelog with no unpublished entry.
ChangelogEmpty ==
  ChangelogHeader \o << Heading(3, BREAKING_CHANGES), Heading(3, BUG_FIXES) >>
    \o ChangelogReleased
\* A changelog with an unpublished breaking change.
ChangelogBreaking ==
  ChangelogHeader \o << Heading(3, BREAKING_CHANGES) >> \o ListItem("Removed a method.")
    \o << Heading(3, BUG_FIXES) >> \o ChangelogReleased
\* A changelog with an unpublished bug fix.
ChangelogBugFix ==
  ChangelogHeader \o << Heading(3, BREAKING_CHANGES), Heading(3, BUG_FIXES) >>
    \o ListItem("Fixed a leak.") \o ChangelogReleased

PackageJson(version, gitHead) == [version |-> version, gitHead |-> gitHead, private |-> FALSE]

\* The option values the command is invoked with: the first record and every
\* record that differs from it in one option.
BaseOptions ==
  [listUnpublished |-> FALSE, prerelease |-> PrereleaseOff, exclude |-> "",
   scope |-> "a,b", retry |-> TRUE, skipRepoChecks |-> TRUE, dry |-> FALSE]

OptionChoices ==
  { BaseOptions,
    [BaseOptions EXCEPT !.listUnpublished = TRUE],
    [BaseOptions EXCEPT !.prerelease = PrereleaseOn],
    [BaseOptions EXCEPT !.exclude = "b"],
    [BaseOptions EXCEPT !.scope = "a"],
    [BaseOptions EXCEPT !.retry = FALSE],
    [BaseOptions EXCEPT !.skipRepoChecks = FALSE],
    [BaseOptions EXCEPT !.dry = TRUE] }

InitialHead == "c4"

InitWorld ==
  /\ now = 0
  /\ head = InitialHead
  /\ packageJsons \in
       [a : {PackageJson("1.0.0", "c1"), PackageJson("1.0", "c1"),
             PackageJson("2.0.0-rc.0", "c1")},
        b : {PackageJson("0.1.2", "c4"), PackageJson("0.1.2", Undefined)}]
  /\ changelogs \in [a : {ChangelogBreaking, ChangelogEmpty}, b : {ChangelogEmpty}]
  /\ registry = [a |-> Some([gitHead |-> "c1"]), b |-> None]
  /\ bundledNativeModules = [a |-> "~1.0.0", c |-> "~2.0.0"]
  /\ unstaged = FALSE
  /\ backupFile = None

InitProcess ==
  /\ pc = "idle"
  /\ exitCode = -1
  /\ options = BaseOptions
  /\ headCommitHash = ""
  /\ fabrics = <<>>
  /\ backup = None
  /\ phaseIndex = 0
  /\ runs = 0

\* No call of getChangesAsync on its own takes place.
NoChangelogCall ==
  /\ tokens = <<>>
  /\ fromVersion = Undefined
  /\ toVersion = Undefined
  /\ changes = None

\* preparePackageFabricsAsync is not followed step by step.
NoFanOut ==
  /\ packages = << >>
  /\ promises = EmptyObject
  /\ settled = << >>

\* The index and the branch are not followed.
NoCheckout ==
  /\ staged = FALSE
  /\ branchName = ""
  /\ confirmed = FALSE

\* The writing of the backup file is not followed.
NoSave ==
  /\ fd = FALSE
  /\ torn = FALSE

Init == InitWorld /\ InitProcess /\ NoChangelogCall /\ NoFanOut /\ NoCheckout /\ NoSave

Running == pc = "running"

\* Exited, but with exit code 0 whatever the cause.
ExitedWithSuccess(how, code) ==
  /\ pc' = how
  /\ exitCode' = 0
  /\ options' = BaseOptions
  /\ headCommitHash' = ""
  /\ fabrics' = <<>>
  /\ backup' = None

\* The process has exited: its objects are gone; phaseIndex is kept as the
\* position the loop had reached.
Exited(how, code) ==
  /\ pc' = how
  /\ exitCode' = code
  /\ options' = BaseOptions
  /\ headCommitHash' = ""
  /\ fabrics' = <<>>
  /\ backup' = None

(***************************************************************************)
(* action(options) from its start to the main loop: the repository checks, *)
(* the fabrics, --list-unpublished, and the restoration of the backup.     *)
(***************************************************************************)
\* checkBranchNameAsync(): branch is the current branch, answer the operator's
\* answer to the prompt shown on another branch than master.
checkBranchNameAsync(branch, answer) == branch = "master" \/ answer

\* Git.hasUnstagedChangesAsync(): whether `git diff --quiet` finds a difference
\* between the working tree and the index.
hasUnstagedChangesAsync(treeDiffersFromIndex) == treeDiffersFromIndex

\* branch is the current branch, answer and restore are the operator's answers
\* to the prompts of checkBranchNameAsync and maybeRestoreBackupAsync.
action(opts, branch, answer, restore) ==
  /\ ~Running
  /\ runs < MaxRuns
  /\ runs' = runs + 1
  /\ UNCHANGED <<world, backupFile>>
  /\ IF ~opts.skipRepoChecks
          /\ (~checkBranchNameAsync(branch, answer) \/ hasUnstagedChangesAsync(unstaged))
     THEN \* action() returns; the options the command was given stay on record
          /\ pc' = "aborted"
          /\ exitCode' = 0
          /\ options' = opts
          /\ headCommitHash' = ""
          /\ fabrics' = << >>
          /\ backup' = None
          /\ phaseIndex' = 0
     ELSE LET prepared == preparePackageFabricsAsync(opts, packageJsons, registry)
              restored == maybeRestoreBackupAsync(backupFile, head, opts, now, restore)
          IN  IF opts.listUnpublished
              THEN /\ phaseIndex' = 0
                   /\ IF ListUnpublishedThrows(prepared, changelogs, head)
                      THEN Exited("crashed", 1)
                      ELSE Exited("listed", 0)
              ELSE /\ options' = opts
                   /\ headCommitHash' = head
                   /\ backup' = restored
                   /\ phaseIndex' = FirstPhaseIndex(restored)
                   /\ fabrics' = RestoreStates(prepared, restored)
                   /\ pc' = "running"
                   /\ exitCode' = -1

\* One invocation of the command.
Invoke(opts, branch, answer, restore) ==
  /\ action(opts, branch, answer, restore)
  /\ UNCHANGED aside

\* The effect of phases[index] on the fabrics and on the files.
PhaseEffect(name, selected) ==
  CASE name = "checkPackagesIntegrity" ->
         /\ fabrics' = checkPackagesIntegrity(fabrics)
         /\ UNCHANGED <<packageJsons, bundledNativeModules, unstaged>>
    [] name = "findUnpublishedPackagesAsync" ->
         /\ fabrics' = findUnpublishedPackagesAsync(fabrics, options, changelogs, head)
         /\ UNCHANGED <<packageJsons, bundledNativeModules, unstaged>>
    [] name = "choosePackagesToPublishAsync" ->
         /\ fabrics' = choosePackagesToPublishAsync(fabrics, selected)
         /\ UNCHANGED <<packageJsons, bundledNativeModules, unstaged>>
    [] name = "updateVersionsAsync" ->
         /\ packageJsons' = updateVersionsAsync(fabrics, Len(fabrics), packageJsons)
         /\ unstaged' = (unstaged \/ packageJsons' # packageJsons)
         /\ UNCHANGED <<fabrics, bundledNativeModules>>
    [] name = "updateBundledNativeModulesFileAsync" ->
         /\ bundledNativeModules' =
              updateBundledNativeModulesFileAsync(fabrics, bundledNativeModules)
         /\ unstaged' = (unstaged \/ bundledNativeModules' # bundledNativeModules)
         /\ UNCHANGED <<fabrics, packageJsons>>

\* RunPhase, but the loop index is not advanced, so the phase runs again.
RunPhaseAgain(selected) ==
  /\ Running
  /\ phaseIndex < Len(phases)
  /\ PhaseEffect(phases[phaseIndex + 1], selected)
  /\ backupFile' = Some(saveBackup(headCommitHash, phaseIndex, fabrics', options, now))
  /\ phaseIndex' = phaseIndex
  /\ UNCHANGED <<now, head, changelogs, registry, pc, exitCode, options, headCommitHash,
                 backup, runs, aside>>

\* One iteration of the main loop in which the phase returns: the phase, then
\* saveBackup.
RunPhase(selected) ==
  /\ Running
  /\ phaseIndex < Len(phases)
  /\ PhaseEffect(phases[phaseIndex + 1], selected)
  /\ backupFile' = Some(saveBackup(headCommitHash, phaseIndex, fabrics', options, now))
  /\ phaseIndex' = phaseIndex + 1
  /\ UNCHANGED <<now, head, changelogs, registry, pc, exitCode, options, headCommitHash,
                 backup, runs, aside>>

\* One iteration of the main loop in which the phase throws: process.exit(1).
\* updateVersionsAsync can throw after it has rewritten the first n manifests.
FailPhase(n) ==
  /\ Running
  /\ phaseIndex < Len(phases)
  /\ phases[phaseIndex + 1] \in ThrowingPhases
  /\ n < Len(fabrics) \/ n = 0
  /\ IF phases[phaseIndex + 1] = "updateVersionsAsync"
     THEN /\ packageJsons' = updateVersionsAsync(fabrics, n, packageJsons)
          /\ unstaged' = (unstaged \/ packageJsons' # packageJsons)
     ELSE /\ n = 0
          /\ UNCHANGED <<packageJsons, unstaged>>
  /\ Exited("failed", 1)
  /\ UNCHANGED <<now, head, changelogs, registry, bundledNativeModules, backupFile,
                 phaseIndex, runs, aside>>

\* Finish, but the loop stops one phase early.
FinishEarly ==
  /\ Running
  /\ phaseIndex >= Len(phases) - 1
  /\ backupFile' = None
  /\ Exited("done", 0)
  /\ UNCHANGED <<world, phaseIndex, runs, aside>>

\* The end of action(): the loop is over and the backup file is removed.
Finish ==
  /\ Running
  /\ phaseIndex >= Len(phases)
  /\ backupFile' = None
  /\ Exited("done", 0)
  /\ UNCHANGED <<world, phaseIndex, runs, aside>>

\* The process is terminated from outside while it waits between two steps.
Kill ==
  /\ Running
  /\ Exited("killed", 130)
  /\ UNCHANGED <<world, backupFile, phaseIndex, runs, aside>>

\* Time passes between two invocations; the first invocation is at time 0.
Tick ==
  /\ ~Running
  /\ runs > 0
  /\ \/ /\ now % BACKUP_EXPIRATION_TIME < MaxMillis
        /\ now' = now + 1
     \/ /\ now \div BACKUP_EXPIRATION_TIME < MaxEpochs
        /\ now' = now + BACKUP_EXPIRATION_TIME
  /\ UNCHANGED <<head, packageJsons, changelogs, registry, bundledNativeModules, unstaged,
                 backupFile, process, aside>>

\* Somebody commits between two invocations: HEAD moves to the next commit.
NewCommit ==
  /\ ~Running
  /\ runs > 0
  /\ PositionOf(head) < Len(GitHistory)
  /\ head' = GitHistory[PositionOf(head) + 1].hash
  /\ UNCHANGED <<now, packageJsons, changelogs, registry, bundledNativeModules, unstaged,
                 backupFile, process, aside>>

Next ==
  \/ \E opts \in OptionChoices, branch \in {"master", "sdk-37"},
        answer \in BOOLEAN, restore \in BOOLEAN :
       Invoke(opts, branch, answer, restore)
  \/ \E selected \in [{"a", "b"} -> BOOLEAN] : RunPhase(selected)
  \/ \E n \in 0..Len(PackageNames) : FailPhase(n)
  \/ Finish
  \/ Kill
  \/ Tick
  \/ NewCommit

Spec == Init /\ [][Next]_vars

(***************************************************************************)
(* A Changelog object on its own: the file is written block by block, then *)
(* getChangesAsync is called, which reads and memoizes the tokens.         *)
(***************************************************************************)
\* The version labels of the files.
Unreleased == "master"
ReleasedLabels == <<"1.2.0", "1.1.0">>

\* The body of the section of version label: no category, or a category with
\* entries that name the section they are in.
SectionBody(kind, label) ==
  CASE kind = "none" -> << >>
    [] kind = "breaking" ->
         << Heading(3, BREAKING_CHANGES) >> \o ListItem("Breaking in " \o label)
    [] kind = "fixes" ->
         << Heading(3, BUG_FIXES) >> \o ListItem("") \o ListItem("Fix in " \o label)
    [] kind = "both" ->
         << Heading(3, BREAKING_CHANGES) >> \o ListItem("Breaking in " \o label)
           \o << Heading(3, BUG_FIXES) >> \o ListItem("Fix in " \o label)

SectionKinds == {"none", "breaking", "fixes", "both"}

\* The files with three version headings: first, 1.2.0, 1.1.0.
ThreeVersionFiles ==
  { << Heading(1, "Changelog"), Heading(2, first) >> \o SectionBody(kinds[1], first)
      \o << Heading(2, ReleasedLabels[1]) >> \o SectionBody(kinds[2], ReleasedLabels[1])
      \o << Heading(2, ReleasedLabels[2]) >> \o SectionBody(kinds[3], ReleasedLabels[2]) :
    first \in {Unreleased, "1.3.0"}, kinds \in [1..3 -> SectionKinds] }

\* What one edit appends to a file.
Blocks ==
  { << Heading(2, Unreleased) >>, << Heading(2, ReleasedLabels[1]) >>,
    << Heading(3, BUG_FIXES) >>, ListItem("Entry"), ListItem("") }

\* The arguments getChangesAsync is called with.
FromChoices == {Undefined, Unreleased, ReleasedLabels[1], ReleasedLabels[2]}
ToChoices == {Undefined, ReleasedLabels[1]}

\* The command does nothing meanwhile.
CommandIdle ==
  /\ now = 0
  /\ head = InitialHead
  /\ packageJsons = [a |-> PackageJson("1.0.0", "c1"), b |-> PackageJson("0.1.2", "c4")]
  /\ changelogs = [a |-> ChangelogEmpty, b |-> ChangelogEmpty]
  /\ registry = [a |-> Some([gitHead |-> "c1"]), b |-> None]
  /\ bundledNativeModules = [a |-> "~1.0.0", c |-> "~2.0.0"]
  /\ unstaged = FALSE
  /\ backupFile = None
  /\ InitProcess
  /\ NoFanOut
  /\ NoCheckout
  /\ NoSave

InitChangelog ==
  /\ tokens \in ThreeVersionFiles \cup {<< >>}
  /\ fromVersion = Undefined
  /\ toVersion = Undefined
  /\ changes = None
  /\ CommandIdle

\* The file grows by one block, before the Changelog object has read it.
Write(block) ==
  /\ changes = None
  /\ Len(tokens) + Len(block) <= MaxTokens
  /\ tokens' = tokens \o block
  /\ UNCHANGED <<fromVersion, toVersion, changes, world, backupFile, process, fanOut,
                 checkout, save>>

\* changelog.getChangesAsync(from, to)
Call(from, to) ==
  /\ fromVersion' = from
  /\ toVersion' = to
  /\ changes' = Some(getChangesAsync(tokens, from, to))
  /\ UNCHANGED <<tokens, world, backupFile, process, fanOut, checkout, save>>

NextChangelog ==
  \/ \E block \in Blocks : Write(block)
  \/ \E from \in FromChoices, to \in ToChoices : Call(from, to)

SpecChangelog == InitChangelog /\ [][NextChangelog]_vars

(***************************************************************************)
(* One invocation of action() with preparePackageFabricsAsync followed     *)
(* step by step: the callback of packages.map is started for every         *)
(* package, each `npm view` answers in its own time, Promise.all settles,  *)
(* and the phases run.                                                     *)
(***************************************************************************)
Pending == [status |-> "pending", value |-> None]
Fulfilled(value) == [status |-> "fulfilled", value |-> Some(value)]
Rejected == [status |-> "rejected", value |-> None]

\* The options of the invocation: no repository checks, no --list-unpublished.
FanOutOptions == { opts \in OptionChoices : opts.skipRepoChecks /\ ~opts.listUnpublished }

\* Promise.all, but the values in the order the promises settled.
PromiseAllInSettledOrder(pkgs, proms) ==
  [ i \in 1..Len(settled) |-> proms[settled[i]].value[1] ]

\* The value Promise.all resolves with: the values of the promises in the
\* order of the packages.
PromiseAll(pkgs, proms) ==
  [ i \in 1..Len(pkgs) |-> proms[pkgs[i].packageName].value[1] ]

\* Promise.all is fulfilled once every promise is.
AllFulfilled(proms) ==
  \A name \in DOMAIN proms : proms[name].status = "fulfilled"

\* action() up to the call of packages.map: every callback runs up to its
\* await of Npm.getPackageViewAsync.
Prepare(opts) ==
  /\ pc = "idle"
  /\ pc' = "preparing"
  /\ options' = opts
  /\ headCommitHash' = head
  /\ packages' = FilteredPackages(opts, packageJsons)
  /\ promises' = [ name \in { packages'[i].packageName : i \in 1..Len(packages') } |-> Pending ]
  /\ settled' = << >>
  /\ runs' = runs + 1
  /\ UNCHANGED <<world, backupFile, exitCode, fabrics, backup, phaseIndex, changelogCall,
                 checkout, save>>

\* `npm view` of one package answers: the callback goes on and returns the fabric.
Fulfil(name) ==
  /\ pc = "preparing"
  /\ name \in DOMAIN promises
  /\ promises[name].status = "pending"
  /\ promises' = [promises EXCEPT ![name] =
                    Fulfilled(FabricOf(PackageOf(name, packageJsons), registry[name]))]
  /\ settled' = Append(settled, name)
  /\ UNCHANGED <<world, backupFile, process, packages, changelogCall, checkout, save>>

\* Npm.getPackageViewAsync of one package fails: the callback's promise is
\* rejected, so are Promise.all, preparePackageFabricsAsync and action(),
\* which nothing catches; node ends the process, with a code that depends
\* on its version.
Reject(name, code) ==
  /\ pc = "preparing"
  /\ name \in DOMAIN promises
  /\ promises[name].status = "pending"
  /\ promises' = [promises EXCEPT ![name] = Rejected]
  /\ settled' = Append(settled, name)
  /\ Exited("crashed", code)
  /\ UNCHANGED <<world, backupFile, phaseIndex, runs, packages, changelogCall, checkout, save>>

\* Promise.all is fulfilled: action() restores the backup, if any, and
\* enters the main loop.
Assemble(restore) ==
  /\ pc = "preparing"
  /\ AllFulfilled(promises)
  /\ LET restored == maybeRestoreBackupAsync(backupFile, head, options, now, restore)
     IN  /\ backup' = restored
         /\ phaseIndex' = FirstPhaseIndex(restored)
         /\ fabrics' = RestoreStates(PromiseAll(packages, promises), restored)
  /\ pc' = "running"
  /\ UNCHANGED <<world, backupFile, exitCode, options, headCommitHash, runs, aside>>

NextFanOut ==
  \/ \E opts \in FanOutOptions : Prepare(opts)
  \/ \E name \in {"a", "b"} : Fulfil(name)
  \/ \E name \in {"a", "b"}, code \in {0, 1} : Reject(name, code)
  \/ \E restore \in BOOLEAN : Assemble(restore)
  \/ \E selected \in [{"a", "b"} -> BOOLEAN] : RunPhase(selected)
  \/ Finish

SpecFanOut == Init /\ [][NextFanOut]_vars

(***************************************************************************)
(* Invocations of action() with the index, the branch and the answer to    *)
(* the prompt of checkBranchNameAsync on record.                           *)
(***************************************************************************)
\* A backup file left by an invocation that was stopped after phase 0.
BackupOfPhase0 ==
  saveBackup(InitialHead, 0,
    checkPackagesIntegrity(
      preparePackageFabricsAsync(BaseOptions,
        [a |-> PackageJson("1.0.0", "c1"), b |-> PackageJson("0.1.2", "c4")],
        [a |-> Some([gitHead |-> "c1"]), b |-> None])),
    BaseOptions, 0)

InitStartUp ==
  /\ now = 0
  /\ head = InitialHead
  /\ packageJsons = [a |-> PackageJson("1.0.0", "c1"), b |-> PackageJson("0.1.2", "c4")]
  /\ changelogs = [a |-> ChangelogBreaking, b |-> ChangelogEmpty]
  /\ registry = [a |-> Some([gitHead |-> "c1"]), b |-> None]
  /\ bundledNativeModules = [a |-> "~1.0.0", c |-> "~2.0.0"]
  /\ unstaged \in BOOLEAN
  /\ staged \in BOOLEAN
  /\ branchName \in {"master", "sdk-37"}
  /\ confirmed = FALSE
  /\ backupFile \in {None, Some(BackupOfPhase0)}
  /\ InitProcess
  /\ NoChangelogCall
  /\ NoFanOut
  /\ NoSave

\* One invocation on the current branch; the answer is on record if the
\* prompt of checkBranchNameAsync was shown.
StartUp(opts, answer, restore) ==
  /\ action(opts, branchName, answer, restore)
  /\ confirmed' = (~opts.skipRepoChecks /\ branchName # "master" /\ answer)
  /\ UNCHANGED <<staged, branchName, changelogCall, fanOut, save>>

\* git checkout of the other branch, between two invocations.
Checkout ==
  /\ ~Running
  /\ branchName' = IF branchName = "master" THEN "sdk-37" ELSE "master"
  /\ UNCHANGED <<world, backupFile, process, staged, confirmed, changelogCall, fanOut, save>>

NextStartUp ==
  \/ \E opts \in OptionChoices, answer \in BOOLEAN, restore \in BOOLEAN :
       StartUp(opts, answer, restore)
  \/ \E selected \in [{"a", "b"} -> BOOLEAN] : RunPhase(selected)
  \/ Finish
  \/ Checkout

SpecStartUp == InitStartUp /\ [][NextStartUp]_vars

(***************************************************************************)
(* The saving of the backup followed step by step.  fs.outputFileSync      *)
(* writes in place: it opens BACKUP_PATH, which truncates the file, writes *)
(* the text and closes.  The process can be terminated in between.         *)
(***************************************************************************)
\* The options of the invocation: no repository checks, no --list-unpublished,
\* so that action() reaches maybeRestoreBackupAsync.
SaveOptions == { BaseOptions, [BaseOptions EXCEPT !.retry = FALSE],
                 [BaseOptions EXCEPT !.dry = TRUE] }

InitSave ==
  /\ now = 0
  /\ head = InitialHead
  /\ packageJsons = [a |-> PackageJson("1.0.0", "c1"), b |-> PackageJson("0.1.2", "c4")]
  /\ changelogs = [a |-> ChangelogBreaking, b |-> ChangelogEmpty]
  /\ registry = [a |-> Some([gitHead |-> "c1"]), b |-> None]
  /\ bundledNativeModules = [a |-> "~1.0.0", c |-> "~2.0.0"]
  /\ unstaged = FALSE
  /\ backupFile = None
  /\ InitProcess
  /\ NoChangelogCall
  /\ NoFanOut
  /\ NoCheckout
  /\ NoSave

\* One invocation.  JsonFile.readAsync of maybeRestoreBackupAsync throws on a
\* file that does not hold a whole JSON text; nothing catches it and node ends
\* the process, with a code that depends on its version.
Start(opts, restore, code) ==
  IF torn
  THEN /\ ~Running
       /\ runs < MaxRuns
       /\ runs' = runs + 1
       /\ phaseIndex' = 0
       /\ Exited("crashed", code)
       /\ UNCHANGED <<world, backupFile, aside>>
  ELSE Invoke(opts, "master", TRUE, restore)

\* One iteration of the main loop up to the open() of fs.outputFileSync: the
\* phase returns, saveBackup builds the backup and the file is truncated.
OpenBackup(selected) ==
  /\ Running
  /\ ~fd
  /\ phaseIndex < Len(phases)
  /\ PhaseEffect(phases[phaseIndex + 1], selected)
  /\ backupFile' = None
  /\ fd' = TRUE
  /\ torn' = TRUE
  /\ UNCHANGED <<now, head, changelogs, registry, pc, exitCode, options, headCommitHash,
                 backup, phaseIndex, runs, changelogCall, fanOut, checkout>>

\* The text is written, the file is closed and the loop goes on.
WriteBackup ==
  /\ Running
  /\ fd
  /\ backupFile' = Some(saveBackup(headCommitHash, phaseIndex, fabrics, options, now))
  /\ fd' = FALSE
  /\ torn' = FALSE
  /\ phaseIndex' = phaseIndex + 1
  /\ UNCHANGED <<world, pc, exitCode, options, headCommitHash, fabrics, backup, runs,
                 changelogCall, fanOut, checkout>>

\* The process is terminated from outside, wherever it is.
Terminate ==
  /\ Running
  /\ Exited("killed", 130)
  /\ fd' = FALSE
  /\ UNCHANGED <<world, backupFile, phaseIndex, runs, torn, changelogCall, fanOut, checkout>>

NextSave ==
  \/ \E opts \in SaveOptions, restore \in BOOLEAN, code \in {0, 1} : Start(opts, restore, code)
  \/ \E selected \in [{"a", "b"} -> BOOLEAN] : OpenBackup(selected)
  \/ WriteBackup
  \/ Terminate
  \/ Finish
  \/ Tick

SpecSave == InitSave /\ [][NextSave]_vars

(***************************************************************************)
(* The command invoked again and again with the same options, --retry and  *)
(* the repository checks, on master, at one HEAD and one time.             *)
(***************************************************************************)
RetryOptions == [BaseOptions EXCEPT !.skipRepoChecks = FALSE]

NextRetry ==
  \/ \E restore \in BOOLEAN : Invoke(RetryOptions, "master", TRUE, restore)
  \/ \E selected \in [{"a", "b"} -> BOOLEAN] : RunPhase(selected)
  \/ \E n \in 0..Len(PackageNames) : FailPhase(n)
  \/ Finish
  \/ Kill

SpecRetry == Init /\ [][NextRetry]_vars

(***************************************************************************)
(* The command invoked without --prerelease, then invoked again with it,   *)
(* every other option staying the same, at one HEAD and one time.          *)
(***************************************************************************)
\* The options of the invocation that follows `run` invocations.
ResumeOptions(run) ==
  [BaseOptions EXCEPT !.prerelease = IF run = 0 THEN PrereleaseOff ELSE PrereleaseOn]

NextResume ==
  \/ \E restore \in BOOLEAN : Invoke(ResumeOptions(runs), "master", TRUE, restore)
  \/ \E selected \in [{"a", "b"} -> BOOLEAN] : RunPhase(selected)
  \/ \E n \in 0..Len(PackageNames) : FailPhase(n)
  \/ Finish
  \/ Kill

SpecResume == Init /\ [][NextResume]_vars

(***************************************************************************)
(* Definitions the properties share.                                       *)
(***************************************************************************)
NameOf(fabric) == fabric.pkg.packageName

FabricNames(fabs) == { NameOf(fabs[i]) : i \in 1..Len(fabs) }

\* The invocation has started at phase 0 or 1, so that the states of its fabrics
\* past phase 1 are those its own detection phase computed.
DetectedHere == Running /\ phaseIndex >= 2 /\ FirstPhaseIndex(backup) <= 1

\* The invocation has completed at least one phase.
CompletedAPhase == Running /\ phaseIndex > FirstPhaseIndex(backup)

\* The step that executes phase `name` to its end.
PhaseStep(name) ==
  /\ Running
  /\ phaseIndex < Len(phases)
  /\ phases[phaseIndex + 1] = name
  /\ phaseIndex' = phaseIndex + 1

\* The checkpoint is valid in the words of the specification.
ValidBySpec(bak, currentHead, opts, dateNow) ==
  /\ bak.head = currentHead
  /\ dateNow - bak.timestamp <= 30 * 60 * 1000
  /\ bak.options = [scope |-> opts.scope, exclude |-> opts.exclude, dry |-> opts.dry]

(***************************************************************************)
(* C1: after phase i >= 1 has failed and the process has exited, the next  *)
(* invocation that restores the backup file starts at phase i, the phase   *)
(* that failed.                                                            *)
(***************************************************************************)
C1_ResumeStartsAtFailedPhase ==
  [][ (pc = "failed" /\ phaseIndex >= 1 /\ pc' = "running" /\ backup' # None)
        => phaseIndex' = phaseIndex ]_vars

(***************************************************************************)
(* C2: when phase i throws, the process exits with a non-zero code at      *)
(* phase i, the backup file is what it was when the phase started (the     *)
(* backup of phase i-1 if the invocation completed a phase), and nothing   *)
(* of the invocation runs afterwards; when all phases return, the process  *)
(* ends with exit code 0.                                                  *)
(***************************************************************************)
C2_FailureHaltsPipeline ==
  [][ /\ (Running /\ pc' = "failed") =>
           /\ phaseIndex' = phaseIndex
           /\ exitCode' # 0
           /\ backupFile' = backupFile
           /\ CompletedAPhase =>
                /\ backupFile # None
                /\ backupFile[1].phaseIndex = phaseIndex - 1
                /\ backupFile[1].head = headCommitHash
      /\ (pc = "failed" /\ runs' = runs) =>
           UNCHANGED <<process, backupFile, packageJsons, bundledNativeModules>>
      /\ (Running /\ pc' = "done") => (phaseIndex = Len(phases) /\ exitCode' = 0)
      /\ (Running /\ phaseIndex >= Len(phases) /\ ~Running') => pc' \in {"done", "killed"}
    ]_vars

C2_Witness ==
  /\ pc = "failed"
  /\ exitCode = 1
  /\ phaseIndex = 3
  /\ backupFile # None
  /\ backupFile[1].phaseIndex = 2

(***************************************************************************)
(* C3: the backup file is accepted exactly when its head is the current    *)
(* HEAD, its age does not exceed 30 minutes and its options scope, exclude *)
(* and dry are those of the invocation; changing one of the three on a     *)
(* valid backup makes it invalid.                                          *)
(***************************************************************************)
C3_BackupValidity ==
  backupFile # None =>
    \A opts \in OptionChoices :
      LET bak == backupFile[1] IN
      /\ isBackupValid(bak, head, opts, now) <=> ValidBySpec(bak, head, opts, now)
      /\ (maybeRestoreBackupAsync(backupFile, head, opts, now, TRUE) # None)
           <=> ValidBySpec(bak, head, opts, now)
      /\ isBackupValid(bak, head, opts, now) =>
           /\ \A h \in Hashes \ {head} : ~isBackupValid(bak, h, opts, now)
           /\ ~isBackupValid(bak, head, opts, bak.timestamp + BACKUP_EXPIRATION_TIME + 1)
           /\ \A other \in OptionChoices :
                (other.scope # opts.scope \/ other.exclude # opts.exclude
                   \/ other.dry # opts.dry) => ~isBackupValid(bak, head, other, now)

\* A backup accepted at the very end of the 30 minutes.
C3_Witness ==
  /\ Running
  /\ backup # None
  /\ now - backup[1].timestamp = BACKUP_EXPIRATION_TIME
  /\ backup[1].head = head
  /\ backup[1].options.dry = options.dry

(***************************************************************************)
(* C4: an invocation that restores the backup of phase 1 ends with the     *)
(* package.json files and the bundledNativeModules.json file that an       *)
(* invocation running all phases from phase 0 produces from the same       *)
(* packages, options, history and answers.                                 *)
(***************************************************************************)
\* The fabrics as preparePackageFabricsAsync returns them.
Fresh(fabs) == [ i \in 1..Len(fabs) |-> [fabs[i] EXCEPT !.state = EmptyObject] ]

\* The packages the operator has been asked about, and the answers.
Answered(fabs) ==
  { NameOf(fabs[i]) : i \in { j \in 1..Len(fabs) : "isSelectedToPublish" \in DOMAIN fabs[j].state } }
AnswersOf(fabs) ==
  [ name \in {"a", "b"} |->
      \E i \in 1..Len(fabs) :
         NameOf(fabs[i]) = name /\ IsTrue(fabs[i].state, "isSelectedToPublish") ]

\* The fabrics after phases 0, 1 and 2 run one after the other on fresh fabrics.
StraightFabrics(fabs, opts) ==
  choosePackagesToPublishAsync(
    findUnpublishedPackagesAsync(checkPackagesIntegrity(Fresh(fabs)), opts, changelogs, head),
    AnswersOf(fabs))

\* The packages a straight run asks the operator about.
Asked(fabs) ==
  { NameOf(fabs[i]) : i \in { j \in 1..Len(fabs) : IsTrue(fabs[j].state, "hasUnpublishedChanges") } }

\* The package.json files as the invocation read them when it started.
StartJsons(fabs) ==
  [ name \in DOMAIN packageJsons |->
      IF name \in FabricNames(fabs)
      THEN (CHOOSE f \in { fabs[i] : i \in 1..Len(fabs) } : NameOf(f) = name).pkg.packageJson
      ELSE packageJsons[name] ]

ResumedAfterPhase1 == backup # None /\ backup[1].phaseIndex = 1

C4_ResumeIdempotence ==
  [][ (ResumedAfterPhase1 /\ PhaseStep("updateBundledNativeModulesFileAsync")) =>
        LET straight == StraightFabrics(fabrics, options) IN
        /\ Answered(fabrics) = Asked(straight)
        /\ packageJsons' = updateVersionsAsync(straight, Len(straight), StartJsons(fabrics))
        /\ bundledNativeModules' =
             updateBundledNativeModulesFileAsync(straight, bundledNativeModules)
    ]_vars

\* A resumed invocation has run its last phase and has released package a.
C4_Witness ==
  /\ Running
  /\ ResumedAfterPhase1
  /\ phaseIndex = Len(phases)
  /\ "a" \in Answered(fabrics)
  /\ AnswersOf(fabrics)["a"]
  /\ packageJsons["a"].version = "2.0.0"
  /\ bundledNativeModules["a"] = "~2.0.0"

(***************************************************************************)
(* C5: after the version update phase a package.json has been rewritten    *)
(* only if its package is selected to publish.                             *)
(***************************************************************************)
C5_RewrittenOnlyIfSelected ==
  (Running /\ phaseIndex >= 4) =>
    \A i \in 1..Len(fabrics) :
      packageJsons[NameOf(fabrics[i])] # fabrics[i].pkg.packageJson
        => IsTrue(fabrics[i].state, "isSelectedToPublish")

(***************************************************************************)
(* C6: the aggregate manifest phase maps every selected package to "~"     *)
(* followed by its releaseVersion and leaves every other entry, present or *)
(* absent, as it was; with no package selected the file is not written.    *)
(***************************************************************************)
Selected(fabs) ==
  { NameOf(fabs[i]) : i \in { j \in 1..Len(fabs) : IsTrue(fabs[j].state, "isSelectedToPublish") } }

ReleaseVersionOf(fabs, name) ==
  Get((CHOOSE f \in { fabs[i] : i \in 1..Len(fabs) } : NameOf(f) = name).state,
      "releaseVersion")

C6_BundledNativeModulesUpdate ==
  [][ PhaseStep("updateBundledNativeModulesFileAsync") =>
        /\ \A name \in Selected(fabrics) :
             /\ name \in DOMAIN bundledNativeModules'
             /\ bundledNativeModules'[name] = "~" \o ReleaseVersionOf(fabrics, name)
        /\ \A name \in (DOMAIN bundledNativeModules \cup DOMAIN bundledNativeModules')
                         \ Selected(fabrics) :
             /\ name \in DOMAIN bundledNativeModules
             /\ name \in DOMAIN bundledNativeModules'
             /\ bundledNativeModules'[name] = bundledNativeModules[name]
        /\ Selected(fabrics) = {} =>
             (bundledNativeModules' = bundledNativeModules /\ unstaged' = unstaged)
    ]_vars

\* The phase has run with package a selected and package b not.
C6_Witness ==
  /\ Running
  /\ phaseIndex = Len(phases)
  /\ Selected(fabrics) = {"a"}
  /\ "b" \in FabricNames(fabrics)
  /\ bundledNativeModules = [a |-> "~2.0.0", c |-> "~2.0.0"]

(***************************************************************************)
(* C7: between the end of phase i and the start of the next phase (or the  *)
(* removal of the file) the backup file holds the backup of phase i: the   *)
(* HEAD hash read at start-up, the options scope, exclude and dry, and a   *)
(* JSON snapshot of every fabric's state.                                  *)
(***************************************************************************)
C7_BackupAfterEveryPhase ==
  CompletedAPhase =>
    /\ backupFile # None
    /\ backupFile[1].phaseIndex = phaseIndex - 1
    /\ backupFile[1].head = headCommitHash
    /\ backupFile[1].timestamp <= now
    /\ backupFile[1].options =
         [scope |-> options.scope, exclude |-> options.exclude, dry |-> options.dry]
    /\ DOMAIN backupFile[1].state = FabricNames(fabrics)
    /\ \A i \in 1..Len(fabrics) :
         backupFile[1].state[NameOf(fabrics[i])] = JsonClone(fabrics[i].state)

\* After the last phase, before the file is removed, with two fabrics.
C7_Witness ==
  /\ Running
  /\ phaseIndex = Len(phases)
  /\ FirstPhaseIndex(backup) = 0
  /\ Len(fabrics) = 2
  /\ backupFile # None
  /\ backupFile[1].phaseIndex = Len(phases) - 1

(***************************************************************************)
(* C8: the backup file is removed only by the step that ends an invocation *)
(* whose phases have all returned; a finished invocation leaves no backup  *)
(* file.                                                                   *)
(***************************************************************************)
C8_BackupRemovedOnlyWhenDone ==
  /\ [](pc = "done" => backupFile = None)
  /\ [][ /\ (backupFile # None /\ backupFile' = None) =>
              (Running /\ phaseIndex = Len(phases) /\ pc' = "done")
         /\ (pc' \in {"failed", "aborted", "killed", "listed", "crashed"}
               \/ runs' = runs + 1) => backupFile' = backupFile
       ]_vars

\* An invocation has ended at phase 2 with a failure and the file is kept.
C8_Witness ==
  /\ pc = "failed"
  /\ phaseIndex = 2
  /\ backupFile # None

(***************************************************************************)
(* C9: for a current version M.m.p without prerelease part the detection   *)
(* phase records major and (M+1).0.0 if the unreleased breaking changes    *)
(* are not empty, else minor and M.(m+1).0 if a file log entry lies under  *)
(* ios/ or android/, else patch and M.m.(p+1).                             *)
(***************************************************************************)
PlainVersion(version) == semverValid(version) /\ ~HasPrerelease(semverParse(version))

Triple(major, minor, patch) ==
  NumToString(major) \o "." \o NumToString(minor) \o "." \o NumToString(patch)

UnderNativeDirectory(fileLog) ==
  /\ Len(fileLog.relativePath) >= 2
  /\ fileLog.relativePath[1] \in {"ios", "android"}

HasBreakingChanges(changelogChanges) ==
  /\ "master" \in DOMAIN changelogChanges.versions
  /\ BREAKING_CHANGES \in DOMAIN changelogChanges.versions["master"]
  /\ changelogChanges.versions["master"][BREAKING_CHANGES] # <<>>

C9_ReleaseTypeDecision ==
  (DetectedHere /\ ~options.prerelease.flag) =>
    \A i \in 1..Len(fabrics) :
      LET state == fabrics[i].state
          version == fabrics[i].pkg.packageVersion
          v == semverParse(version)
      IN  PlainVersion(version) =>
            IF HasBreakingChanges(state["changelogChanges"])
            THEN /\ state["releaseType"] = "major"
                 /\ state["releaseVersion"] = Triple(v.major + 1, 0, 0)
            ELSE IF \E k \in 1..Len(state["fileLogs"]) : UnderNativeDirectory(state["fileLogs"][k])
            THEN /\ state["releaseType"] = "minor"
                 /\ state["releaseVersion"] = Triple(v.major, v.minor + 1, 0)
            ELSE /\ state["releaseType"] = "patch"
                 /\ state["releaseVersion"] = Triple(v.major, v.minor, v.patch + 1)

\* Breaking changes and native file changes are both present: major.
C9_Witness ==
  /\ DetectedHere
  /\ ~options.prerelease.flag
  /\ \E i \in 1..Len(fabrics) :
       /\ fabrics[i].pkg.packageVersion = "1.0.0"
       /\ HasBreakingChanges(fabrics[i].state["changelogChanges"])
       /\ \E k \in 1..Len(fabrics[i].state["fileLogs"]) :
            UnderNativeDirectory(fabrics[i].state["fileLogs"][k])
       /\ fabrics[i].state["releaseType"] = "major"
       /\ fabrics[i].state["releaseVersion"] = "2.0.0"

(***************************************************************************)
(* C10: for a current version that is a prerelease the detection phase     *)
(* records the release type prerelease and a non-empty next version.       *)
(***************************************************************************)
C10_PrereleaseTrackContinues ==
  DetectedHere =>
    \A i \in 1..Len(fabrics) :
      semverPrerelease(fabrics[i].pkg.packageVersion) # None =>
        /\ Get(fabrics[i].state, "releaseType") = "prerelease"
        /\ ~Falsy(Get(fabrics[i].state, "releaseVersion"))

(***************************************************************************)
(* C11: with a prerelease identifier requested ("rc" when the option has   *)
(* no value) and a current version without prerelease part, the detection  *)
(* phase records the release type prerelease and, as release version, the  *)
(* normally bumped version followed by -<identifier>.0.                    *)
(***************************************************************************)
\* The version the major / minor / patch decision of C9 leads to.
NormallyBumped(fabric) ==
  LET v == semverParse(fabric.pkg.packageVersion) IN
  IF HasBreakingChanges(fabric.state["changelogChanges"]) THEN Triple(v.major + 1, 0, 0)
  ELSE IF \E k \in 1..Len(fabric.state["fileLogs"]) :
            UnderNativeDirectory(fabric.state["fileLogs"][k])
       THEN Triple(v.major, v.minor + 1, 0)
       ELSE Triple(v.major, v.minor, v.patch + 1)

RequestedIdentifier(opts) == IF opts.prerelease.value = "" THEN "rc" ELSE opts.prerelease.value

C11_PrereleaseIdentifierApplied ==
  (DetectedHere /\ options.prerelease.flag) =>
    \A i \in 1..Len(fabrics) :
      PlainVersion(fabrics[i].pkg.packageVersion) =>
        /\ Get(fabrics[i].state, "releaseType") = "prerelease"
        /\ Get(fabrics[i].state, "releaseVersion") =
             NormallyBumped(fabrics[i]) \o "-" \o RequestedIdentifier(options) \o ".0"

(***************************************************************************)
(* C12: a package whose current version is malformed ends the detection    *)
(* phase without a release version, is not asked about nor marked as       *)
(* selected by the choice phase, keeps its package.json in the version     *)
(* update phase and gets no entry in bundledNativeModules.json.            *)
(***************************************************************************)
Malformed(fabric) == ~semverValid(fabric.pkg.packageVersion)

C12_MalformedVersionExcluded ==
  [][ \A i \in 1..Len(fabrics) :
        Malformed(fabrics[i]) =>
          LET name == NameOf(fabrics[i]) IN
          /\ PhaseStep("findUnpublishedPackagesAsync") =>
               Falsy(Get(fabrics'[i].state, "releaseVersion"))
          /\ PhaseStep("choosePackagesToPublishAsync") =>
               "isSelectedToPublish" \notin DOMAIN fabrics'[i].state
          /\ PhaseStep("updateVersionsAsync") => packageJsons'[name] = packageJsons[name]
          /\ PhaseStep("updateBundledNativeModulesFileAsync") =>
               Get(bundledNativeModules', name) = Get(bundledNativeModules, name)
    ]_vars

(***************************************************************************)
(* What a file holds, read off its tokens section by section.              *)
(***************************************************************************)
IsHeading(token, depth) == token.type = HEADING /\ token.depth = depth

\* The indexes of the version headings, in document order.
VersionHeadings(toks) ==
  SelectSeq([k \in 1..Len(toks) |-> k], LAMBDA k : IsHeading(toks[k], 2))

VersionLabels(toks) ==
  LET idx == VersionHeadings(toks) IN [j \in 1..Len(idx) |-> toks[idx[j]].text]

\* The last token of the section that the j-th version heading opens.
SectionEnd(toks, j) ==
  LET idx == VersionHeadings(toks) IN IF j < Len(idx) THEN idx[j + 1] - 1 ELSE Len(toks)

\* The category heading that token k of the section starting at lo is under, 0 if none.
CategoryAt(toks, lo, k) ==
  LET hs == { h \in lo..k : IsHeading(toks[h], 3) }
  IN  IF hs = {} THEN 0 ELSE CHOOSE h \in hs : \A g \in hs : g <= h

\* The indexes of the entries of the section lo..hi: the non-empty texts of
\* list items under a category heading.
EntryIndexes(toks, lo, hi) ==
  { k \in lo..hi : /\ toks[k].type = TEXT
                   /\ toks[k].text # ""
                   /\ CategoryAt(toks, lo, k) # 0 }

EntriesOf(toks, lo, hi, category) ==
  LET ks == SelectSeq([k \in 1..Len(toks) |-> k],
                      LAMBDA k : /\ k \in EntryIndexes(toks, lo, hi)
                                 /\ toks[CategoryAt(toks, lo, k)].text = category)
  IN  [n \in 1..Len(ks) |-> toks[ks[n]].text]

SectionChanges(toks, lo, hi) ==
  [ category \in { toks[h].text : h \in { g \in lo..hi : IsHeading(toks[g], 3) } } |->
      EntriesOf(toks, lo, hi, category) ]

\* The result that holds exactly the sections opened by the version headings
\* numbered in js (of a file whose version labels differ).
SectionsResult(toks, js) ==
  LET idx == VersionHeadings(toks)
      lo(j) == idx[j]
      numberOf(label) == CHOOSE j \in js : toks[idx[j]].text = label
  IN  [ totalCount |->
          Cardinality(UNION { EntryIndexes(toks, lo(j), SectionEnd(toks, j)) : j \in js }),
        versions |->
          [ label \in { toks[idx[j]].text : j \in js } |->
              SectionChanges(toks, lo(numberOf(label)), SectionEnd(toks, numberOf(label))) ] ]

\* getChangesAsync() returns the unreleased section if the file starts with
\* it and nothing otherwise; getChangesAsync(from), for from among froms,
\* returns the sections before the heading from of a file that starts with
\* the unreleased section.
GetChangesAsClaimed(froms) ==
  (changes # None /\ tokens \in ThreeVersionFiles /\ toVersion = Undefined) =>
    LET labels == VersionLabels(tokens) IN
    IF fromVersion = Undefined
    THEN changes[1] = SectionsResult(tokens, IF labels[1] = Unreleased THEN {1} ELSE {})
    ELSE (labels[1] = Unreleased /\ fromVersion \in froms) =>
           changes[1] =
             SectionsResult(tokens, { j \in 1..Len(labels) :
                                        \E m \in 1..Len(labels) :
                                           labels[m] = fromVersion /\ j < m })

StopIndex(toks, from, to) ==
  LET stops == { k \in 1..Len(toks) :
                   /\ IsHeading(toks[k], 2)
                   /\ toks[k].text # (IF to = Undefined THEN Unreleased ELSE to)
                   /\ (from \in {Undefined, ""} \/ toks[k].text = from) }
  IN  IF stops = {} THEN Len(toks) + 1 ELSE CHOOSE k \in stops : \A j \in stops : k <= j

\* The version heading token k is under, 0 if none.
VersionAt(toks, k) ==
  LET hs == { h \in 1..k : IsHeading(toks[h], 2) }
  IN  IF hs = {} THEN 0 ELSE CHOOSE h \in hs : \A g \in hs : g <= h

\* The indexes of the texts that are to be collected.
CollectedIndexes(toks, from, to) ==
  { k \in 1..(StopIndex(toks, from, to) - 1) :
      /\ toks[k].type = TEXT
      /\ toks[k].text # ""
      /\ VersionAt(toks, k) # 0
      /\ CategoryAt(toks, VersionAt(toks, k), k) # 0 }

\* The places of a result where an entry is stored.
StoredPlaces(result) ==
  UNION { UNION { { <<label, category, n>> : n \in 1..Len(result.versions[label][category]) } :
                    category \in DOMAIN result.versions[label] } :
          label \in DOMAIN result.versions }

C14_TotalCountIsStoredEntries ==
  changes # None =>
    LET result == changes[1]
        ks == CollectedIndexes(tokens, fromVersion, toVersion)
    IN  /\ result.totalCount = Cardinality(StoredPlaces(result))
        /\ \A place \in StoredPlaces(result) :
             result.versions[place[1]][place[2]][place[3]] # ""
        /\ result.totalCount = Cardinality(ks)
        /\ \A label \in DOMAIN result.versions :
             \A category \in DOMAIN result.versions[label] :
               LET mine == SelectSeq([k \in 1..Len(tokens) |-> k],
                             LAMBDA k : /\ k \in ks
                                        /\ tokens[VersionAt(tokens, k)].text = label
                                        /\ tokens[CategoryAt(tokens, VersionAt(tokens, k), k)].text
                                             = category)
               IN  result.versions[label][category] = [n \in 1..Len(mine) |-> tokens[mine[n]].text]

\* A call has skipped an empty list item of the section it collects and the
\* list items of the sections past the heading it stops at, and has stored
\* one entry.
C14_Witness ==
  /\ changes # None
  /\ changes[1].totalCount = 1
  /\ \E k \in 1..Len(tokens) :
       /\ tokens[k].type = TEXT
       /\ tokens[k].text = ""
       /\ k < StopIndex(tokens, fromVersion, toVersion)
       /\ VersionAt(tokens, k) # 0
       /\ CategoryAt(tokens, VersionAt(tokens, k), k) # 0
  /\ \E k \in 1..Len(tokens) :
       /\ tokens[k].type = TEXT
       /\ tokens[k].text # ""
       /\ k > StopIndex(tokens, fromVersion, toVersion)
       /\ CategoryAt(tokens, VersionAt(tokens, k), k) # 0

(***************************************************************************)
(* The commit log of a package as the detection phase gets it from git,    *)
(* and as it records it.                                                   *)
(***************************************************************************)
ReturnedLogs(fabric) ==
  logAsync(fabric.pkg.path, fabric.pkg.packageJson.gitHead, "head", headCommitHash)

HashesOf(logs) == { logs[k].hash : k \in 1..Len(logs) }

NewestFirst(logs) ==
  \A k, l \in 1..Len(logs) : k < l => PositionOf(logs[k].hash) > PositionOf(logs[l].hash)

(***************************************************************************)
(* C15: with a non-empty gitHead in package.json the detection phase       *)
(* records the n commits git returns less one of them (none if n = 0);     *)
(* with no gitHead it records the n commits as returned.                   *)
(***************************************************************************)
C15_OneEntryRemovedIffGitHead ==
  DetectedHere =>
    \A i \in 1..Len(fabrics) :
      LET returned == ReturnedLogs(fabrics[i])
          recorded == fabrics[i].state["logs"]
          n == Len(returned)
      IN  IF ~Falsy(fabrics[i].pkg.packageJson.gitHead)
          THEN /\ Len(recorded) = IF n = 0 THEN 0 ELSE n - 1
               /\ HashesOf(recorded) \subseteq HashesOf(returned)
               /\ Cardinality(HashesOf(recorded)) = Len(recorded)
          ELSE recorded = returned

\* One package with gitHead and two commits since, one entry recorded; the
\* other without gitHead.
C15_Witness ==
  /\ DetectedHere
  /\ \E i \in 1..Len(fabrics) :
       /\ fabrics[i].pkg.packageJson.gitHead = "c1"
       /\ Len(ReturnedLogs(fabrics[i])) = 2
       /\ Len(fabrics[i].state["logs"]) = 1
  /\ \E i \in 1..Len(fabrics) :
       /\ fabrics[i].pkg.packageJson.gitHead = Undefined
       /\ fabrics[i].state["logs"] = ReturnedLogs(fabrics[i])

(***************************************************************************)
(* C16: the log git returns is ordered newest first, and with a non-empty  *)
(* gitHead the entry that is missing from the recorded log is the newest   *)
(* of the returned ones, all older entries being recorded.                 *)
(***************************************************************************)
C16_NewestEntryDiscarded ==
  DetectedHere =>
    \A i \in 1..Len(fabrics) :
      LET returned == ReturnedLogs(fabrics[i])
          recorded == fabrics[i].state["logs"]
      IN  /\ NewestFirst(returned)
          /\ (~Falsy(fabrics[i].pkg.packageJson.gitHead) /\ returned # << >>) =>
               /\ returned[1].hash \notin HashesOf(recorded)
               /\ \A k \in 2..Len(returned) : returned[k].hash \in HashesOf(recorded)

(***************************************************************************)
(* C16, amended: the log git returns is ordered newest first, and with a   *)
(* non-empty gitHead the entry that is missing from the recorded log is    *)
(* the oldest of the returned ones (the last of the array), all newer      *)
(* entries being recorded in the same order.                               *)
(***************************************************************************)
C16_OldestEntryDiscarded ==
  DetectedHere =>
    \A i \in 1..Len(fabrics) :
      LET returned == ReturnedLogs(fabrics[i])
          recorded == fabrics[i].state["logs"]
      IN  /\ NewestFirst(returned)
          /\ NewestFirst(recorded)
          /\ (~Falsy(fabrics[i].pkg.packageJson.gitHead) /\ returned # << >>) =>
               /\ returned[Len(returned)].hash \notin HashesOf(recorded)
               /\ \A k \in 1..(Len(returned) - 1) : recorded[k] = returned[k]
               /\ \A h \in HashesOf(recorded) :
                    PositionOf(h) > PositionOf(returned[Len(returned)].hash)

\* Commits c2 and c3 since gitHead c1: c3 is recorded, c2 is not.
C16_Witness ==
  /\ DetectedHere
  /\ \E i \in 1..Len(fabrics) :
       /\ HashesOf(ReturnedLogs(fabrics[i])) = {"c2", "c3"}
       /\ HashesOf(fabrics[i].state["logs"]) = {"c3"}
       /\ fabrics[i].state["logs"][1].parent = "c2"

(***************************************************************************)
(* C17: when the registry fetch of one package fails, the process goes on  *)
(* preparing, the promises of the other packages are left as they are,     *)
(* and the phases that run afterwards see the package with a null          *)
(* registry snapshot.                                                      *)
(***************************************************************************)
C17_FetchFailureIsolated ==
  /\ [][ \A name \in DOMAIN promises \cap DOMAIN promises' :
           (promises[name].status = "pending" /\ promises'[name].status = "rejected") =>
             /\ pc' = "preparing"
             /\ \A other \in DOMAIN promises \ {name} : promises'[other] = promises[other]
       ]_vars
  /\ [](\A name \in DOMAIN promises :
          promises[name].status = "rejected" =>
            /\ pc \in {"preparing", "running", "done"}
            /\ \A i \in 1..Len(fabrics) :
                 NameOf(fabrics[i]) = name => fabrics[i].pkgView = None)

(***************************************************************************)
(* C18: whatever the order in which the registry fetches settle, the       *)
(* phases run only once every fetch has settled, every fabric they see has *)
(* its package, its registry snapshot and its changelog, and the fabrics   *)
(* are in the order of the filtered package list.                          *)
(***************************************************************************)
C18_FanInBeforePhases ==
  /\ [](Running =>
          /\ \A name \in DOMAIN promises : promises[name].status # "pending"
          /\ Len(fabrics) = Len(packages)
          /\ \A i \in 1..Len(fabrics) :
               /\ DOMAIN fabrics[i] = {"pkg", "pkgView", "changelog", "state"}
               /\ fabrics[i].pkg = packages[i]
               /\ fabrics[i].pkgView = registry[NameOf(fabrics[i])]
               /\ fabrics[i].changelog = [filePath |-> NameOf(fabrics[i])]
          /\ [ i \in 1..Len(fabrics) |-> NameOf(fabrics[i]) ]
               = FilterSeq(PackageNames, FabricNames(fabrics)))
  /\ [][ /\ phaseIndex' # phaseIndex =>
             \A name \in DOMAIN promises : promises[name].status # "pending"
         /\ (pc = "preparing" /\ pc' = "running") =>
             fabrics' = preparePackageFabricsAsync(options, packageJsons, registry)
       ]_vars

\* The fetch of b has settled before the fetch of a, and a phase has run on
\* the fabrics a, b.
C18_Witness ==
  /\ Running
  /\ phaseIndex >= 1
  /\ settled = <<"b", "a">>
  /\ Len(fabrics) = 2
  /\ NameOf(fabrics[1]) = "a"
  /\ fabrics[1].pkgView # None
  /\ fabrics[2].pkgView = None

(***************************************************************************)
(* The repository checks of an invocation, seen from the step that starts  *)
(* it.                                                                     *)
(***************************************************************************)
\* The step is the start of an invocation with the repository checks on.
StartsWithChecks == runs' = runs + 1 /\ ~options'.skipRepoChecks

\* The operator was asked to confirm the branch and did not.
BranchDeclined == branchName # "master" /\ ~confirmed'

\* The invocation has ended before any phase: the backup file is neither
\* read nor touched, no state is computed, no manifest is written.
EndsBeforeAnyPhase ==
  /\ pc' = "aborted"
  /\ phaseIndex' = 0
  /\ backup' = None
  /\ backupFile' = backupFile
  /\ fabrics' = << >>
  /\ packageJsons' = packageJsons
  /\ bundledNativeModules' = bundledNativeModules

(***************************************************************************)
(* C19: an invocation with the repository checks on ends before any phase  *)
(* when the working tree holds uncommitted modifications, staged or not,   *)
(* or when the branch is not master and the operator does not confirm.     *)
(***************************************************************************)
C19_AbortOnUncommittedOrBranch ==
  [][ (StartsWithChecks /\ (unstaged \/ staged \/ BranchDeclined)) => EndsBeforeAnyPhase ]_vars

\* What the checks of action() do ensure: the invocation ends before any phase
\* when `git diff --quiet` finds unstaged modifications, or when the branch is
\* not master and the operator does not confirm.
AbortOnUnstagedOrBranch ==
  [][ (StartsWithChecks /\ (unstaged \/ BranchDeclined)) => EndsBeforeAnyPhase ]_vars

\* An invocation on master has been refused because of unstaged changes, with
\* a backup file present and left alone.
AbortedOnUnstaged ==
  /\ pc = "aborted"
  /\ ~options.skipRepoChecks
  /\ unstaged
  /\ branchName = "master"
  /\ backupFile = Some(BackupOfPhase0)
  /\ fabrics = << >>

(***************************************************************************)
(* C20: when the backup file exists and is not valid (too old, saved at    *)
(* another HEAD or with other options), the restore step does not fail the *)
(* run and leaves the file as it is, and the run starts at phase 0 with    *)
(* the state of every fabric empty.                                        *)
(***************************************************************************)
C20_InvalidBackupIgnored ==
  [][ (runs' = runs + 1 /\ Running' /\ backupFile # None
         /\ ~ValidBySpec(backupFile[1], head, options', now))
      => /\ backupFile' = backupFile
         /\ exitCode' = -1
         /\ backup' = None
         /\ phaseIndex' = 0
         /\ fabrics' = Fresh(fabrics')
    ]_vars

\* A run has started from phase 0 over a backup file of a later phase that
\* was saved at this HEAD less than 30 minutes ago, with another dry option.
C20_Witness ==
  /\ Running
  /\ phaseIndex = 0
  /\ backup = None
  /\ fabrics = Fresh(fabrics)
  /\ backupFile # None
  /\ backupFile[1].phaseIndex > 0
  /\ backupFile[1].head = head
  /\ now - backupFile[1].timestamp <= BACKUP_EXPIRATION_TIME
  /\ backupFile[1].options.dry # options.dry

(***************************************************************************)
(* C21: saving the backup is atomic with respect to the termination of the *)
(* process: once the process is gone, the backup file is absent or holds a *)
(* whole backup, never a part of one, and no later invocation fails to     *)
(* read it.                                                                *)
(***************************************************************************)
C21_SaveAtomic ==
  /\ ~Running => ~torn
  /\ pc # "crashed"

(***************************************************************************)
(* C22: when an invocation restores the backup, its first phase index is   *)
(* the backup's phaseIndex and, before any phase runs, the state of each   *)
(* fabric is the state it was built with overlaid with the backup's state  *)
(* for its package name: a key of the backup's state has the backup's      *)
(* value, any other key keeps its value, and a fabric the backup has no    *)
(* state for keeps its empty state.                                        *)
(***************************************************************************)
C22_RestoreOverlay ==
  [][ (runs' = runs + 1 /\ Running' /\ backup' # None)
      => LET built == preparePackageFabricsAsync(options', packageJsons, registry)
             snapshots == backup'[1].state
         IN  /\ backup' = backupFile
             /\ phaseIndex' = backup'[1].phaseIndex
             /\ Len(fabrics') = Len(built)
             /\ \A i \in 1..Len(built) :
                  LET name == NameOf(built[i])
                      before == built[i].state
                      after == fabrics'[i].state
                  IN  /\ NameOf(fabrics'[i]) = name
                      /\ IF name \in DOMAIN snapshots
                         THEN /\ DOMAIN after = DOMAIN before \cup DOMAIN snapshots[name]
                              /\ \A k \in DOMAIN snapshots[name] : after[k] = snapshots[name][k]
                              /\ \A k \in DOMAIN before \ DOMAIN snapshots[name] :
                                   after[k] = before[k]
                         ELSE after = EmptyObject
    ]_vars

\* An invocation has just restored the backup saved after phase 2: both
\* fabrics carry the states of the backup and no phase has run yet.
C22_Witness ==
  /\ Running
  /\ backup # None
  /\ backup[1].phaseIndex = 2
  /\ phaseIndex = 2
  /\ Len(fabrics) = 2
  /\ \A i \in 1..Len(fabrics) :
       /\ NameOf(fabrics[i]) \in DOMAIN backup[1].state
       /\ fabrics[i].state = backup[1].state[NameOf(fabrics[i])]
       /\ DOMAIN fabrics[i].state # {}

(***************************************************************************)
(* C23: within one invocation the phases run one after another in the      *)
(* order of the list, each at most once: a step of the running process is  *)
(* one whole phase and moves the loop index to the next phase.  A          *)
(* package.json file is written by the phase updateVersionsAsync only, in  *)
(* the one step of that phase, which ends the phase or the process.        *)
(***************************************************************************)
C23_PhasesInOrderOneWriter ==
  /\ [](Running => phaseIndex \in FirstPhaseIndex(backup)..Len(phases))
  /\ [][ /\ (Running /\ Running') =>
              /\ runs' = runs
              /\ phaseIndex < Len(phases)
              /\ phaseIndex' = phaseIndex + 1
         /\ (Running /\ ~Running') => phaseIndex' = phaseIndex
         /\ (packageJsons' # packageJsons) =>
              /\ Running
              /\ phaseIndex < Len(phases)
              /\ phases[phaseIndex + 1] = "updateVersionsAsync"
              /\ ~Running' \/ phaseIndex' = phaseIndex + 1
    ]_vars

\* An invocation that started at phase 0 has run updateVersionsAsync, which
\* wrote the package.json of a, and is past it.
C23_Witness ==
  /\ Running
  /\ backup = None
  /\ phaseIndex = Len(phases)
  /\ phases[phaseIndex - 1] = "updateVersionsAsync"
  /\ packageJsons.a.version = "2.0.0"
  /\ packageJsons.a.gitHead # "c1"

(***************************************************************************)
(* C24: after a phase has failed or the process has been terminated, also  *)
(* in a phase that runs after package.json files have been rewritten, an   *)
(* invocation with --retry, the same options and the same HEAD, within the *)
(* 30 minutes, is not refused by the repository checks: it restores the    *)
(* backup and runs phases.                                                 *)
(***************************************************************************)
C24_RetryResumes ==
  [][ (runs' = runs + 1 /\ pc \in {"failed", "killed"} /\ backupFile # None
         /\ ValidBySpec(backupFile[1], head, RetryOptions, now))
      => /\ pc' = "running"
         /\ backup' = backupFile
         /\ phaseIndex' = backupFile[1].phaseIndex
    ]_vars

(***************************************************************************)
(* The commits and the changelog entries that the detection phase is to    *)
(* find for a package, read off the history and the file.                  *)
(***************************************************************************)
\* The commits that touch the package after the gitHead of its package.json,
\* up to the HEAD of the invocation.
NewCommits(fabric) ==
  { k \in (PositionOf(fabric.pkg.packageJson.gitHead) + 1)..PositionOf(headCommitHash) :
      Touches(GitHistory[k], fabric.pkg.path) }

\* The entries of the unreleased section of the package's changelog.
UnreleasedEntries(fabric) ==
  LET toks == changelogs[fabric.changelog.filePath]
      idx == VersionHeadings(toks)
  IN  IF idx # << >> /\ toks[idx[1]].text = Unreleased
      THEN EntryIndexes(toks, idx[1], SectionEnd(toks, 1))
      ELSE {}

Marked(fabric) == IsTrue(fabric.state, "hasUnpublishedChanges")

(***************************************************************************)
(* C25: after the detection phase a package with a gitHead is marked as    *)
(* having unpublished changes exactly when at least one commit touches it  *)
(* since that gitHead or the unreleased section of its changelog has an    *)
(* entry; so it is with one such commit and no entry.                      *)
(***************************************************************************)
C25_AnyNewCommitMarks ==
  DetectedHere =>
    \A i \in 1..Len(fabrics) :
      ~Falsy(fabrics[i].pkg.packageJson.gitHead) =>
        (Marked(fabrics[i]) <=>
           (Cardinality(NewCommits(fabrics[i])) >= 1 \/ UnreleasedEntries(fabrics[i]) # {}))

\* What findUnpublishedPackagesAsync does ensure: a package is marked exactly
\* when it has a gitHead and at least two commits touch it since that gitHead
\* (logs.pop() sets the oldest of them aside), or the unreleased section of its
\* changelog has an entry.
MarkedPastOneCommit ==
  DetectedHere =>
    \A i \in 1..Len(fabrics) :
      /\ "hasUnpublishedChanges" \in DOMAIN fabrics[i].state
      /\ Marked(fabrics[i]) <=>
           \/ /\ ~Falsy(fabrics[i].pkg.packageJson.gitHead)
              /\ Cardinality(NewCommits(fabrics[i])) >= 2
           \/ UnreleasedEntries(fabrics[i]) # {}

\* One package with one commit since its gitHead and no entry, not marked,
\* beside one with two commits since its gitHead and no entry, marked.
OneCommitNotMarked ==
  /\ DetectedHere
  /\ \E i, j \in 1..Len(fabrics) :
       /\ ~Falsy(fabrics[i].pkg.packageJson.gitHead)
       /\ Cardinality(NewCommits(fabrics[i])) = 1
       /\ UnreleasedEntries(fabrics[i]) = {}
       /\ ~Marked(fabrics[i])
       /\ ~Falsy(fabrics[j].pkg.packageJson.gitHead)
       /\ Cardinality(NewCommits(fabrics[j])) = 2
       /\ UnreleasedEntries(fabrics[j]) = {}
       /\ Marked(fabrics[j])

(***************************************************************************)
(* C26: a backup is restored only by an invocation whose options that      *)
(* influence the release versions are those of the run that saved it: the  *)
(* backup of a run without --prerelease, with the release versions that    *)
(* run computed, is not restored by an invocation with --prerelease.       *)
(***************************************************************************)
C26_NoRestoreAcrossPrerelease ==
  [][ (/\ runs = 1 /\ runs' = 2
       /\ ResumeOptions(0).prerelease # ResumeOptions(1).prerelease
       /\ backupFile # None
       /\ \E name \in DOMAIN backupFile[1].state :
            ~Falsy(Get(backupFile[1].state[name], "releaseVersion")))
      => backup' = None ]_vars

(***************************************************************************)
(* C27: in every state of the pipeline, also after a backup is restored    *)
(* and the selection phase runs again, a package with isSelectedToPublish  *)
(* true has hasUnpublishedChanges true; the selection phase assigns        *)
(* isSelectedToPublish to the packages with unpublished changes and leaves *)
(* it absent on the others.                                                *)
(***************************************************************************)
C27_SelectedHasUnpublishedChanges ==
  /\ [](\A i \in 1..Len(fabrics) :
          IsTrue(fabrics[i].state, "isSelectedToPublish") => Marked(fabrics[i]))
  /\ [][ PhaseStep("choosePackagesToPublishAsync") =>
           \A i \in 1..Len(fabrics) :
             IF Marked(fabrics[i])
             THEN /\ "isSelectedToPublish" \in DOMAIN fabrics'[i].state
                  /\ fabrics'[i].state["isSelectedToPublish"] \in BOOLEAN
             ELSE "isSelectedToPublish" \notin DOMAIN fabrics'[i].state
    ]_vars

\* The selection phase has run again after the backup of the selection phase
\* was restored: a is selected, b has no unpublished changes and no answer.
C27_Witness ==
  /\ Running
  /\ backup # None
  /\ backup[1].phaseIndex = 2
  /\ phaseIndex = 3
  /\ Selected(fabrics) = {"a"}
  /\ \E i \in 1..Len(fabrics) :
       /\ NameOf(fabrics[i]) = "b"
       /\ ~Marked(fabrics[i])
       /\ "isSelectedToPublish" \notin DOMAIN fabrics[i].state

(***************************************************************************)
(* C28: getChangesAsync(from, to) with both labels given, the heading to   *)
(* not after the heading from in the file, returns exactly the sections    *)
(* from the heading to, included, to the heading from, excluded: no        *)
(* section before the heading to, and nothing at all when from is to.      *)
(***************************************************************************)
C28_GetChangesBetween ==
  (changes # None /\ tokens \in ThreeVersionFiles
     /\ fromVersion # Undefined /\ toVersion # Undefined) =>
    LET labels == VersionLabels(tokens) IN
    \A t, f \in 1..Len(labels) :
      (labels[t] = toVersion /\ labels[f] = fromVersion /\ t <= f) =>
        changes[1] = SectionsResult(tokens, t..(f - 1))

====
